---- MODULE Spec2Model ----
(***************************************************************************)
(* A model of the TDF timeline engine of dLib (tdfTools.py and             *)
(* tdfTimeFunctions.py): the partitioned streaming reader, the value       *)
(* query GetNamedValueFromTimeline, the timeline compiler (forward pass,   *)
(* stage-onset sweep, reverse pass) and the sliding-window functions.      *)
(*                                                                         *)
(* Each area has its own variables and its own specification; the          *)
(* variables of the other areas stay at their idle values.                 *)
(*                                                                         *)
(* Lab values are Python floats in the source.  Here they are integers in  *)
(* tenths (Cr 1.4 is 14), so every comparison of the source is exact.      *)
(* The sentinels TDF_INVALID_VALUE and TDF_SMALLEST_VALID_VALUE keep their *)
(* source values: every valid scaled value stays above both.  GFR and MELD  *)
(* scores, which the source rounds to integers, are kept unscaled.  A       *)
(* quotient                                                                *)
(* is kept as a fraction [n, d].  Where the source accumulates floats      *)
(* (a running total), every addition rounds: FloatRound models that        *)
(* rounding with a short significand.                                      *)
(***************************************************************************)
EXTENDS Integers, Sequences, FiniteSets, TLC

\* tdfTools.py:347 and :354
TDF_INVALID_VALUE == -314159
TDF_SMALLEST_VALID_VALUE == -1000

\* tdfTools.py:341-342
VARIABLE_RANGE_SIMPLE == -1
VARIABLE_RANGE_LAST_MATCH == 1

VARIABLES
    \* ---- partitioned streaming reader ----
    fileLines,      \* the file: a sequence of lines [kind, lead, len]
    partitionList,  \* CreateFilePartitionList's result: <<[start, stop], ...>>
    seqPos,         \* fileHandle.tell() of the reader doing the unpartitioned scan
    seqPc,          \* "first" | "next" | "done"
    seqFound,       \* fragments returned by the unpartitioned scan, in order
    partIndex,      \* partition being scanned (1-based)
    partPos,        \* fileHandle.tell() of the reader doing the partition scans
    partPc,         \* "create" | "first" | "next" | "done"
    partFound,      \* fragments returned by the partition scans, in order
    knownPc,        \* "find" | "read" | "done": the reads at recorded positions
    knownIndex,     \* partition whose positions are recorded (1-based)
    resultTimelinePositionLists, \* positions recorded and not yet read
    knownFound,     \* fragments loaded at recorded positions, in order
    \* ---- sliding-window functions ----
    funcObj,        \* the function object under test
    funcCalls,      \* number of ComputeNewValue calls made on it
    funcLast,       \* the last call: its arguments, its output, what it evicted
    baselineCrSeries, \* the CTimeSeries under test
    seriesLast,     \* the last AddNewValue call: its arguments, whether it raised
    \* ---- value query ----
    CompiledTimeline, \* the compiled TimePoints: [TimeDays, data]
    queryFunc,      \* the reference's function object
    queryIndex,     \* the TimePoint the caller's loop is at (0-based)
    queryOut,       \* what the last GetNamedValueFromTimeline call did
    \* ---- timeline compiler ----
    compilePc,      \* the loop CompileTimelineImpl is in
    compileIndex,   \* timeLineIndex of the sweep and of the reverse pass
    allValueVarNameList,            \* the variables the reader was opened for
    fCarryForwardPreviousDataValues,
    latestTimeLineEntryTimeDays,
    FutureBaselineCr,
    StartDates,     \* StartCKD5Date .. StartCKD3aDate, StartMELD40Date .. StartMELD10Date
    NextFutureDischargeDate,
    EventualDeathDate,
    \* ---- requested-variable list ----
    parsePc,        \* how the last ParseVariableList call ended
    parseCalls,     \* ParseVariableList calls made on the reader
    parseArgs,      \* the arguments of the last call
    readerLists,    \* the reader's parsed lists (allValueVarNameList, ...)
    parsePrev,      \* the reader's parsed lists when the last call began
    expandTable,    \* the descriptors' 'VariableDependencies'
    expandIndex,    \* the entry the dependency loop is at (1-based)
    \* ---- written timeline file ----
    outputFile,     \* the data nodes TDFFileWriter wrote: [C, T, text]
    writerLog,      \* what the writer's caller asked for, node by node
    fileIndex,      \* the node CompileTimelineImpl's loop is at (1-based)
    prevDateDays,   \* the day of the node before it
    \* ---- filter predicates ----
    criteriaProps,  \* the property lists: <<[relationName, valueName, targetVal], ...>>
    criteriaEntry,  \* the TimePoint's 'data': variable name -> snapshot entry
    criteriaOut,    \* what the last CheckIfCurrentTimeMeetsCriteria call returned
    \* ---- aligned extraction ----
    extractSubject, \* the subject whose timeline is loaded (1-based)
    extractInputs,  \* the inputs the reader was opened for
    extractArgs,    \* the arguments of the GetDataForCurrentTimeline calls
    allValuesFunctionObjectList, \* the inputs' function objects
    fedBefore,      \* whether a function object held observations when the last call began
    extractOut,     \* what the last GetDataForCurrentTimeline call returned
    \* ---- outcome categories ----
    outcomeCall     \* the last ComputeOutcomeCategory call: its dates and what it returned

knownVars == <<knownPc, knownIndex, resultTimelinePositionLists, knownFound>>

partVars == <<fileLines, partitionList, seqPos, seqPc, seqFound,
              partIndex, partPos, partPc, partFound, knownVars>>

funcVars == <<funcObj, funcCalls, funcLast, baselineCrSeries, seriesLast>>

queryVars == <<queryFunc, queryIndex, queryOut>>
compileVars == <<compilePc, compileIndex, allValueVarNameList,
                 fCarryForwardPreviousDataValues, latestTimeLineEntryTimeDays,
                 FutureBaselineCr, StartDates, NextFutureDischargeDate,
                 EventualDeathDate>>

parseVars == <<parsePc, parseCalls, parseArgs, readerLists, parsePrev,
               expandTable, expandIndex>>

fileVars == <<outputFile, writerLog, fileIndex, prevDateDays>>

criteriaVars == <<criteriaProps, criteriaEntry, criteriaOut>>

dataVars == <<extractSubject, extractInputs, extractArgs, allValuesFunctionObjectList,
              fedBefore, extractOut>>

extractVars == <<criteriaVars, dataVars>>

vars == <<partVars, funcVars, CompiledTimeline, queryVars, compileVars, parseVars,
          fileVars,
    extractVars, outcomeCall>>

\* What the actions of one area leave alone.
notPartVars == <<funcVars, CompiledTimeline, queryVars, compileVars, parseVars,
                 fileVars,
    extractVars, outcomeCall>>
notFuncVars == <<partVars, CompiledTimeline, queryVars, compileVars, parseVars,
                 fileVars,
    extractVars, outcomeCall>>
notQueryVars == <<partVars, funcVars, compileVars, parseVars, fileVars,
    extractVars, outcomeCall>>
notCompileVars == <<partVars, funcVars, queryVars, parseVars, fileVars,
    extractVars, outcomeCall>>
notParseVars == <<partVars, funcVars, CompiledTimeline, queryVars, compileVars,
                  fileVars,
    extractVars, outcomeCall>>
notFileVars == <<partVars, funcVars, queryVars, parseVars,
    extractVars, outcomeCall>>
notOutcomeVars == <<partVars, funcVars, CompiledTimeline, queryVars, compileVars,
                    parseVars, fileVars, extractVars>>
notExtractVars == <<partVars, funcVars, queryVars, compileVars, parseVars, fileVars,
                    outcomeCall>>

(***************************************************************************)
(* PARTITIONED STREAMING READER                                            *)
(***************************************************************************)

\* Bounds of the files explored.
MaxTimelines == 2
MaxDataLen == 2

\* The value of a one-element set: names a value computed once.
Only(S) == CHOOSE x \in S : TRUE

Max(a, b) == IF a >= b THEN a ELSE b
Min(a, b) == IF a <= b THEN a ELSE b

\* A line of the file.  kind is what the line is once stripped and lowered:
\*   "list"  the <TimelineList> line           "open"  a line starting <TL
\*   "close" a line starting </TL>             "other" anything else
\* lead is the number of leading whitespace bytes, len the byte length
\* (newline included).
Line(k, ld, ln) == [kind |-> k, lead |-> ld, len |-> ln]

\* One timeline as a writer lays it out: the opening line, its data lines
\* (one line of dlen bytes, none when dlen = 0) and the closing line,
\* preceded by a blank line.
TimelineLines(ld, dlen) ==
    <<Line("other", 0, 1), Line("open", ld, 3)>>
    \o (IF dlen = 0 THEN <<>> ELSE <<Line("other", 0, dlen)>>)
    \o <<Line("close", 0, 2)>>

\* The files: the header TDFFileWriter.WriteHeader lays out, ending with the
\* <TimelineList> line, 1..MaxTimelines timelines, and the footer.  The
\* header holds the indented line <TLLocationIndex></TLLocationIndex>, whose
\* stripped, lowered text starts with "<tl": it is a line of kind "open".
HeaderLines == <<Line("other", 0, 1), Line("open", 1, 3), Line("list", 0, 2)>>
FooterLines == <<Line("other", 0, 2)>>

RECURSIVE TimelineSeqs(_)
TimelineSeqs(n) ==
    IF n = 0 THEN {<<>>}
    ELSE {t \o TimelineLines(ld, dlen) :
            t \in TimelineSeqs(n - 1), ld \in {0, 1}, dlen \in 0..MaxDataLen}

Files == {HeaderLines \o t \o FooterLines :
            t \in UNION {TimelineSeqs(n) : n \in 1..MaxTimelines}}

RECURSIVE LineStart(_, _)
LineStart(f, i) == IF i = 1 THEN 0 ELSE LineStart(f, i - 1) + f[i - 1].len

FileLength(f) == LineStart(f, Len(f) + 1)

\* The line that holds byte offset pos (pos < FileLength(f)).
LineOf(f, pos) ==
    CHOOSE i \in 1..Len(f) : LineStart(f, i) <= pos /\ pos < LineStart(f, i + 1)

\* readline() at pos, then lstrip().rstrip().lower(): the token kind of the
\* text from pos to the end of its line.  A read that starts inside the
\* leading whitespace still sees the whole token; one that starts later
\* sees only a tail of it.
TokenAt(f, pos) ==
    LET i == LineOf(f, pos)
    IN  IF pos - LineStart(f, i) <= f[i].lead THEN f[i].kind ELSE "other"

\* fileHandle.tell() after the readline() at pos.
AfterLine(f, pos) == LineStart(f, LineOf(f, pos) + 1)

\* What a scan call returns, and where it leaves the file handle.
\* tl is the index of the line that opened the fragment (0 when none).
ScanResult(found, eof, tl, start, stop, pos) ==
    [fFoundTimeline |-> found, fEOF |-> eof, tl |-> tl,
     startTimelinePosInFile |-> start, stopTimelinePosInFile |-> stop,
     pos |-> pos]

\* TDFFileReader.ReadNextTimelineXMLStrImpl: the loop from the state
\* (pos, fStartedTimelineSection, startTimelinePosInFile).
RECURSIVE ReadLoop(_, _, _, _, _, _)
ReadLoop(f, pos, stopPartition, started, tl, start) ==
    IF 0 < stopPartition /\ stopPartition <= pos /\ ~started
    THEN ScanResult(FALSE, FALSE, tl, start, TDF_INVALID_VALUE, pos)
    ELSE IF pos >= FileLength(f)
    THEN ScanResult(FALSE, TRUE, tl, start, TDF_INVALID_VALUE, pos)
    ELSE
      LET tok == TokenAt(f, pos)
          opens == ~started /\ tok = "open"
          started2 == started \/ opens
          tl2 == IF opens THEN LineOf(f, pos) ELSE tl
          start2 == IF opens THEN pos ELSE start
          next == AfterLine(f, pos)
      IN  IF tok = "close" /\ started2
          THEN ScanResult(TRUE, FALSE, tl2, start2, next, next)
          ELSE ReadLoop(f, next, stopPartition, started2, tl2, start2)

ReadNextTimelineXMLStrImpl(f, pos, stopPartition) ==
    ReadLoop(f, pos, stopPartition, FALSE, 0, TDF_INVALID_VALUE)

\* TDFFileReader.GotoNextTimelineEx (the fragment parses: fFoundTimeline
\* stays as the read left it).
GotoNextTimelineEx(f, pos) ==
    LET r == ReadNextTimelineXMLStrImpl(f, pos, TDF_INVALID_VALUE)
    IN  IF ~r.fFoundTimeline \/ r.fEOF
        THEN ScanResult(FALSE, FALSE, 0, 0, 0, r.pos)
        ELSE r

\* TDFFileReader.GotoFirstTimelineEx: seek(0), skip lines up to the
\* <TimelineList> line, then GotoNextTimelineEx.
RECURSIVE SkipHeader(_, _)
SkipHeader(f, pos) ==
    IF pos >= FileLength(f) THEN -1
    ELSE IF TokenAt(f, pos) = "list" THEN AfterLine(f, pos)
    ELSE SkipHeader(f, AfterLine(f, pos))

GotoFirstTimelineEx(f) ==
    LET p == SkipHeader(f, 0)
    IN  IF p = -1
        THEN ScanResult(FALSE, FALSE, 0, TDF_INVALID_VALUE, TDF_INVALID_VALUE,
                        FileLength(f))
        ELSE GotoNextTimelineEx(f, p)

\* TDFFileReader.GotoNextTimelineInPartition, called with no known position.
GotoNextTimelineInPartitionImpl(f, pos, stopPartition) ==
    ReadNextTimelineXMLStrImpl(f, pos, stopPartition)

\* TDFFileReader.GotoFirstTimelineInPartition, called with no known position.
GotoFirstTimelineInPartitionImpl(f, startPartition, stopPartition) ==
    IF startPartition = 0
    THEN LET r == GotoFirstTimelineEx(f)
         IN  [r EXCEPT !.fEOF = IF ~r.fFoundTimeline THEN TRUE ELSE r.fEOF]
    ELSE GotoNextTimelineInPartitionImpl(f, startPartition, stopPartition)

\* CreateFilePartitionList.
RECURSIVE PartitionsFrom(_, _, _)
PartitionsFrom(partitionStartPos, partitionSizeInBytes, fileLength) ==
    IF partitionStartPos < fileLength
    THEN LET partitionStopPos ==
                 Min(partitionStartPos + partitionSizeInBytes, fileLength)
         IN  <<[start |-> partitionStartPos, stop |-> partitionStopPos]>>
             \o PartitionsFrom(partitionStopPos, partitionSizeInBytes, fileLength)
    ELSE <<>>

CreateFilePartitionListImpl(f, partitionSizeInBytes) ==
    PartitionsFrom(0, partitionSizeInBytes, FileLength(f))

\* A returned fragment: the line that opened it and the byte range read.
Fragment(r) == [tl |-> r.tl, start |-> r.startTimelinePosInFile,
                stop |-> r.stopTimelinePosInFile]

PartIdle ==
    /\ fileLines = <<>>
    /\ partitionList = <<>>
    /\ seqPos = 0 /\ seqPc = "idle" /\ seqFound = <<>>
    /\ partIndex = 0 /\ partPos = 0 /\ partPc = "idle" /\ partFound = <<>>
    /\ knownPc = "idle" /\ knownIndex = 0
    /\ resultTimelinePositionLists = <<>> /\ knownFound = <<>>

\* The unpartitioned scan: GotoFirstTimeline, then GotoNextTimeline until
\* it reports nothing.
GotoFirstTimeline ==
    /\ seqPc = "first"
    /\ LET r == GotoFirstTimelineEx(fileLines)
       IN  /\ seqPos' = r.pos
           /\ seqFound' = IF r.fFoundTimeline
                          THEN Append(seqFound, Fragment(r)) ELSE seqFound
           /\ seqPc' = IF r.fFoundTimeline THEN "next" ELSE "done"
    /\ UNCHANGED <<fileLines, partitionList, partIndex, partPos, partPc, partFound, knownVars, notPartVars>>

GotoNextTimeline ==
    /\ seqPc = "next"
    /\ LET r == GotoNextTimelineEx(fileLines, seqPos)
       IN  /\ seqPos' = r.pos
           /\ seqFound' = IF r.fFoundTimeline
                          THEN Append(seqFound, Fragment(r)) ELSE seqFound
           /\ seqPc' = IF r.fFoundTimeline THEN "next" ELSE "done"
    /\ UNCHANGED <<fileLines, partitionList, partIndex, partPos, partPc, partFound, knownVars, notPartVars>>

\* The caller splits the file with some partition size (once the
\* unpartitioned scan, run by a reader of its own, has ended).
CreateFilePartitionList ==
    /\ partPc = "create"
    /\ seqPc = "done"
    /\ \E partitionSizeInBytes \in 1..FileLength(fileLines) :
         partitionList' = CreateFilePartitionListImpl(fileLines, partitionSizeInBytes)
    /\ partIndex' = 1
    /\ partPc' = "first"
    /\ UNCHANGED <<fileLines, seqPos, seqPc, seqFound, partPos, partFound, knownVars, notPartVars>>

\* After a call of the partition scan: go on in this partition while a
\* timeline was found, else move to the next partition.
AfterPartitionCall(r) ==
    /\ partPos' = r.pos
    /\ partFound' = IF r.fFoundTimeline
                    THEN Append(partFound, [part |-> partIndex] @@ Fragment(r))
                    ELSE partFound
    /\ IF r.fFoundTimeline
       THEN partPc' = "next" /\ partIndex' = partIndex
       ELSE IF partIndex < Len(partitionList)
       THEN partPc' = "first" /\ partIndex' = partIndex + 1
       ELSE partPc' = "done" /\ partIndex' = partIndex

GotoFirstTimelineInPartition ==
    /\ partPc = "first"
    /\ AfterPartitionCall(
         GotoFirstTimelineInPartitionImpl(fileLines,
             partitionList[partIndex].start, partitionList[partIndex].stop))
    /\ UNCHANGED <<fileLines, partitionList, seqPos, seqPc, seqFound, knownVars, notPartVars>>

GotoNextTimelineInPartition ==
    /\ partPc = "next"
    /\ AfterPartitionCall(
         GotoNextTimelineInPartitionImpl(fileLines, partPos,
             partitionList[partIndex].stop))
    /\ UNCHANGED <<fileLines, partitionList, seqPos, seqPc, seqFound, knownVars, notPartVars>>

\* readline() at pos, then re.match of '<TL' or '</TL>' on the line as read:
\* the tag has to be the first bytes read, so leading whitespace hides it.
RawTokenAt(f, pos) ==
    LET i == LineOf(f, pos)
    IN  IF pos - LineStart(f, i) = f[i].lead THEN f[i].kind ELSE "other"

\* TDFFileReader.FindAllTimelinesInPartition: the loop from the state
\* (pos, fFoundOpenElement, currentOpenElementPosition,
\* resultTimelinePositionLists).
RECURSIVE FindLoop(_, _, _, _, _, _)
FindLoop(f, pos, stopPartition, fFoundOpenElement, currentOpenElementPosition, result) ==
    IF ~fFoundOpenElement /\ 0 < stopPartition /\ stopPartition <= pos
    THEN [positions |-> result, fEOF |-> FALSE]
    ELSE IF pos >= FileLength(f)
    THEN [positions |-> result, fEOF |-> TRUE]
    ELSE IF fFoundOpenElement /\ RawTokenAt(f, pos) = "close"
    THEN FindLoop(f, AfterLine(f, pos), stopPartition, FALSE, currentOpenElementPosition,
                  Append(result, [start |-> currentOpenElementPosition,
                                  stop |-> AfterLine(f, pos)]))
    ELSE IF ~fFoundOpenElement /\ RawTokenAt(f, pos) = "open"
    THEN FindLoop(f, AfterLine(f, pos), stopPartition, TRUE, pos, result)
    ELSE FindLoop(f, AfterLine(f, pos), stopPartition, fFoundOpenElement,
                  currentOpenElementPosition, result)

FindAllTimelinesInPartitionImpl(f, startPartition, stopPartition) ==
    FindLoop(f, startPartition, stopPartition, FALSE, TDF_INVALID_VALUE, <<>>)

\* TDFFileReader.ReadTimelineAtKnownPosition: seek, then read the bytes up
\* to the stop position; the fragment loaded, named as a scan names it.
ReadTimelineAtKnownPositionImpl(f, startTimelinePosInFile, stopTimelinePosInFile) ==
    [tl |-> LineOf(f, startTimelinePosInFile), start |-> startTimelinePosInFile,
     stop |-> stopTimelinePosInFile]

\* After the positions of a partition are used up: on to the next one.
AfterKnownPartition(positions) ==
    IF positions # <<>>
    THEN knownPc' = "read" /\ knownIndex' = knownIndex
    ELSE IF knownIndex < Len(partitionList)
    THEN knownPc' = "find" /\ knownIndex' = knownIndex + 1
    ELSE knownPc' = "done" /\ knownIndex' = knownIndex

\* The positions of the timelines of one partition are recorded (once the
\* partition scans, run by a reader of their own, have ended).
FindAllTimelinesInPartition ==
    /\ partPc = "done"
    /\ knownPc = "find"
    /\ \E r \in {FindAllTimelinesInPartitionImpl(fileLines,
                    partitionList[knownIndex].start, partitionList[knownIndex].stop)} :
         /\ resultTimelinePositionLists' = r.positions
         /\ AfterKnownPartition(r.positions)
    /\ UNCHANGED <<fileLines, partitionList, seqPos, seqPc, seqFound, partIndex,
                   partPos, partPc, partFound, knownFound, notPartVars>>

\* The timeline at the next recorded position is loaded.
ReadTimelineAtKnownPosition ==
    /\ knownPc = "read"
    /\ LET p == Head(resultTimelinePositionLists)
       IN  knownFound' = Append(knownFound, [part |-> knownIndex]
                 @@ ReadTimelineAtKnownPositionImpl(fileLines, p.start, p.stop))
    /\ resultTimelinePositionLists' = Tail(resultTimelinePositionLists)
    /\ AfterKnownPartition(Tail(resultTimelinePositionLists))
    /\ UNCHANGED <<fileLines, partitionList, seqPos, seqPc, seqFound, partIndex,
                   partPos, partPc, partFound, notPartVars>>

(***************************************************************************)
(* SLIDING-WINDOW FUNCTIONS (tdfTimeFunctions.py)                          *)
(***************************************************************************)

\* Bounds of the observation streams explored.
MaxFuncDay == 6
MaxFuncCalls == 4
\* Significand bits of the model's floats (53 in a Python float).
FloatMantissaBits == 3

\* The values fed: all of them carried exactly by the model's floats.
FuncValues == {5, 6, 7}
\* Window sizes the factory bakes in (CreateTimeValueFunction: sum1, sum3, ...).
FuncWindows == {1, 3}
FuncClasses ==
    {"CSum", "CRangeValue", "CPercentChangeValue", "CRateValue", "CRunningAvgValue",
     "CDeltaValue"}
\* The values fed to a relative range, whose quotient has a case for 0.
RelativeRangeValues == {0, 5, 7}
\* The window of the baseline series (CTimeSeries(7)) and the days it is fed.
SeriesWindow == 7
SeriesDays == {0, 4, 8, 12}
\* The values and days fed to a function with a 30-day window.
LongWindowValues == {10, 12, 20}
LongWindowDays == {0, 10, 30}

RECURSIVE Pow2(_)
Pow2(n) == IF n = 0 THEN 1 ELSE 2 * Pow2(n - 1)

Abs(x) == IF x < 0 THEN -x ELSE x

\* The binary exponent at which a magnitude fits the significand.
RECURSIVE FloatExp(_, _)
FloatExp(m, e) == IF m < Pow2(FloatMantissaBits + e) THEN e ELSE FloatExp(m, e + 1)

\* The float nearest to the exact result x of one arithmetic operation
\* (round to nearest, ties to the even significand).
FloatRound(x) ==
    LET m == Abs(x)
        q == Pow2(FloatExp(m, 0))
        lower == (m \div q) * q
        rem == m - lower
        near == IF 2 * rem < q THEN lower
                ELSE IF 2 * rem > q THEN lower + q
                ELSE IF (lower \div q) % 2 = 0 THEN lower ELSE lower + q
    IN  IF x < 0 THEN -near ELSE near

\* A quotient n / d, kept exact.
Rat(n, d) == [n |-> n, d |-> d]
RatOfInt(x) == Rat(x, 1)
\* r < x for an integer x.
RatLessInt(r, x) == IF r.d > 0 THEN r.n < x * r.d ELSE r.n > x * r.d
RatInvalid == RatOfInt(TDF_INVALID_VALUE)
\* Two quotients are the same number.
RatEquals(a, b) == a.n * b.d = b.n * a.d

\* A function object.  Every class keeps ValueQueue (oldest entry first);
\* TotalValue is CSum's, MinValue and MaxValue are CRangeValue's, lowestValue
\* is CPercentChangeValue's.
FuncReset(cls, numDays, fAbsolute) ==
    [cls |-> cls, MaxDaysInQueue |-> numDays, fAbsolute |-> fAbsolute,
     ValueQueue |-> <<>>, TotalValue |-> 0,
     MinValue |-> TDF_INVALID_VALUE, MaxValue |-> TDF_INVALID_VALUE,
     lowestValue |-> TDF_INVALID_VALUE]

\* A Reset() that leaves the object as it is.
ResetKeepingObservations(fo) == fo

\* Reset() of an existing object.
Reset(fo) == FuncReset(fo.cls, fo.MaxDaysInQueue, fo.fAbsolute)

QueueEntry(value, dayNum) == [v |-> value, d |-> dayNum]

RECURSIVE SeqMin(_)
SeqMin(q) == IF Len(q) = 1 THEN q[1].v ELSE Min(q[1].v, SeqMin(Tail(q)))
RECURSIVE SeqMax(_)
SeqMax(q) == IF Len(q) = 1 THEN q[1].v ELSE Max(q[1].v, SeqMax(Tail(q)))

\* CSum.ComputeNewValue: the pruning loop, then the append and the result.
RECURSIVE CSumPrune(_, _)
CSumPrune(fo, dayNum) ==
    IF Len(fo.ValueQueue) > 0 /\ dayNum - fo.ValueQueue[1].d > fo.MaxDaysInQueue
    THEN CSumPrune([fo EXCEPT
                      !.TotalValue = FloatRound(fo.TotalValue - fo.ValueQueue[1].v),
                      !.ValueQueue = Tail(fo.ValueQueue)], dayNum)
    ELSE fo

CSumComputeNewValue(fo, value, dayNum) ==
    LET pruned == CSumPrune(fo, dayNum)
        after == [pruned EXCEPT
                    !.ValueQueue = Append(pruned.ValueQueue, QueueEntry(value, dayNum)),
                    !.TotalValue = FloatRound(pruned.TotalValue + value)]
    IN  [obj |-> after,
         out |-> IF Len(after.ValueQueue) > 0
                 THEN RatOfInt(after.TotalValue) ELSE RatInvalid]

\* CRangeValue.ComputeNewValue.
RECURSIVE CRangePrune(_, _)
CRangePrune(fo, dayNum) ==
    IF Len(fo.ValueQueue) > 0 /\ dayNum - fo.ValueQueue[1].d > fo.MaxDaysInQueue
    THEN LET hit == fo.MinValue = fo.ValueQueue[1].v \/ fo.MaxValue = fo.ValueQueue[1].v
         IN  CRangePrune([fo EXCEPT
                 !.MaxValue = IF hit THEN TDF_INVALID_VALUE ELSE fo.MaxValue,
                 !.MinValue = IF hit THEN TDF_INVALID_VALUE ELSE fo.MinValue,
                 !.ValueQueue = Tail(fo.ValueQueue)], dayNum)
    ELSE fo

CRangeComputeNewValue(fo, value, dayNum) ==
    LET pruned == CRangePrune(fo, dayNum)
        queue == Append(pruned.ValueQueue, QueueEntry(value, dayNum))
        rescan == pruned.MaxValue = TDF_INVALID_VALUE \/ pruned.MinValue = TDF_INVALID_VALUE
        minV == IF rescan THEN SeqMin(queue)
                ELSE IF value <= pruned.MinValue THEN value ELSE pruned.MinValue
        maxV == IF rescan THEN SeqMax(queue)
                ELSE IF value >= pruned.MaxValue THEN value ELSE pruned.MaxValue
        after == [pruned EXCEPT !.ValueQueue = queue, !.MinValue = minV, !.MaxValue = maxV]
        result == maxV - minV
    IN  [obj |-> after,
         out |-> IF minV = TDF_INVALID_VALUE \/ maxV = TDF_INVALID_VALUE \/ Len(queue) <= 1
                 THEN RatInvalid
                 ELSE IF ~fo.fAbsolute /\ minV # 0
                 THEN Rat(result, minV)
                 ELSE RatOfInt(result)]

\* CPercentChangeValue.ComputeNewValue.
RECURSIVE CPercentPrune(_, _)
CPercentPrune(fo, dayNum) ==
    IF Len(fo.ValueQueue) > 0 /\ dayNum - fo.ValueQueue[1].d > fo.MaxDaysInQueue
    THEN CPercentPrune([fo EXCEPT
             !.lowestValue = IF fo.lowestValue = fo.ValueQueue[1].v
                             THEN TDF_INVALID_VALUE ELSE fo.lowestValue,
             !.ValueQueue = Tail(fo.ValueQueue)], dayNum)
    ELSE fo

CPercentComputeNewValue(fo, value, dayNum) ==
    LET pruned == CPercentPrune(fo, dayNum)
        queue == Append(pruned.ValueQueue, QueueEntry(value, dayNum))
        lowest == IF pruned.lowestValue = TDF_INVALID_VALUE
                  THEN SeqMin(queue) ELSE pruned.lowestValue
        after == [pruned EXCEPT !.ValueQueue = queue, !.lowestValue = lowest]
    IN  [obj |-> after,
         out |-> IF lowest = TDF_INVALID_VALUE \/ Len(queue) < 2
                 THEN RatInvalid
                 ELSE IF lowest = 0 THEN RatOfInt(0)
                 ELSE Rat(value - lowest, lowest)]

\* CRateValue.ComputeNewValue.
RECURSIVE CRatePrune(_, _)
CRatePrune(fo, dayNum) ==
    IF Len(fo.ValueQueue) > 0 /\ dayNum - fo.ValueQueue[1].d > fo.MaxDaysInQueue
    THEN CRatePrune([fo EXCEPT !.ValueQueue = Tail(fo.ValueQueue)], dayNum)
    ELSE fo

\* The loop over the queue: deltaValue, the largest |value - entry['v']|.
RECURSIVE LargestDelta(_, _)
LargestDelta(queue, value) ==
    IF Len(queue) = 1 THEN Abs(value - queue[1].v)
    ELSE Max(Abs(value - queue[1].v), LargestDelta(Tail(queue), value))

\* CRateValue.ComputeNewValue with one observation more needed before a
\* rate is returned.
CRateComputeNewValueNeedsThree(fo, value, dayNum) ==
    LET pruned == CRatePrune(fo, dayNum)
        queue == Append(pruned.ValueQueue, QueueEntry(value, dayNum))
        deltaDays == dayNum - queue[1].d
    IN  [obj |-> [pruned EXCEPT !.ValueQueue = queue],
         out |-> IF Len(queue) <= 2 \/ deltaDays <= 0 THEN RatInvalid
                 ELSE Rat(LargestDelta(queue, value), deltaDays)]

\* CRateValue.ComputeNewValue dividing by the days since the entry whose
\* value is farthest from the new one.
CRateComputeNewValueOverDeltaSpan(fo, value, dayNum) ==
    LET pruned == CRatePrune(fo, dayNum)
        queue == Append(pruned.ValueQueue, QueueEntry(value, dayNum))
        farthest == CHOOSE k \in 1..Len(queue) :
                        Abs(value - queue[k].v) = LargestDelta(queue, value)
        deltaDays == dayNum - queue[farthest].d
    IN  [obj |-> [pruned EXCEPT !.ValueQueue = queue],
         out |-> IF Len(queue) <= 1 \/ deltaDays <= 0 THEN RatInvalid
                 ELSE Rat(LargestDelta(queue, value), deltaDays)]

\* CRateValue.ComputeNewValue: the largest distance of the new value from a
\* queued one, over the days the queue spans.
CRateComputeNewValue(fo, value, dayNum) ==
    LET pruned == CRatePrune(fo, dayNum)
        queue == Append(pruned.ValueQueue, QueueEntry(value, dayNum))
        deltaDays == dayNum - queue[1].d
    IN  [obj |-> [pruned EXCEPT !.ValueQueue = queue],
         out |-> IF Len(queue) <= 1 \/ deltaDays <= 0 THEN RatInvalid
                 ELSE Rat(LargestDelta(queue, value), deltaDays)]

\* CRunningAvgValue.ComputeNewValue: CSum's running total, over the number
\* of entries retained.
CRunningAvgComputeNewValue(fo, value, dayNum) ==
    LET pruned == CSumPrune(fo, dayNum)
        after == [pruned EXCEPT
                    !.ValueQueue = Append(pruned.ValueQueue, QueueEntry(value, dayNum)),
                    !.TotalValue = FloatRound(pruned.TotalValue + value)]
    IN  [obj |-> after,
         out |-> IF Len(after.ValueQueue) > 0
                 THEN Rat(after.TotalValue, Len(after.ValueQueue)) ELSE RatInvalid]

\* CDeltaValue.ComputeNewValue: the new value less the oldest retained one.
CDeltaComputeNewValue(fo, value, dayNum) ==
    LET pruned == CRatePrune(fo, dayNum)
        queue == Append(pruned.ValueQueue, QueueEntry(value, dayNum))
    IN  [obj |-> [pruned EXCEPT !.ValueQueue = queue],
         out |-> IF Len(queue) <= 1 \/ dayNum - queue[1].d < 1 THEN RatInvalid
                 ELSE RatOfInt(value - queue[1].v)]

\* functionObject.ComputeNewValue(value, dayNum, timeMin), by class.
ComputeNewValue(fo, value, dayNum) ==
    CASE fo.cls = "CSum" -> CSumComputeNewValue(fo, value, dayNum)
      [] fo.cls = "CRangeValue" -> CRangeComputeNewValue(fo, value, dayNum)
      [] fo.cls = "CPercentChangeValue" -> CPercentComputeNewValue(fo, value, dayNum)
      [] fo.cls = "CRateValue" -> CRateComputeNewValue(fo, value, dayNum)
      [] fo.cls = "CRunningAvgValue" -> CRunningAvgComputeNewValue(fo, value, dayNum)
      [] fo.cls = "CDeltaValue" -> CDeltaComputeNewValue(fo, value, dayNum)

\* CTimeSeries.__init__
CTimeSeries(maxHistoryInDays) ==
    [maxHistoryInDays |-> maxHistoryInDays, ValueQueue |-> <<>>, lowestValue |-> -1,
     MostRecentValue |-> -1, MostRecentDay |-> -1, MostRecentMin |-> -1,
     OldestDay |-> -1, OldestHour |-> -1, OldestMin |-> -1]

\* CTimeSeries.AddNewValue.  The entries it queues have the keys v, d and m;
\* the first turn of its eviction loop reads oldestValue['h'], which raises
\* KeyError after the oldest entry is popped and OldestDay is assigned.
AddNewValue(ts, value, timeInDays, timeMin) ==
    LET appended == [ts EXCEPT
            !.ValueQueue = Append(ts.ValueQueue, QueueEntry(value, timeInDays)),
            !.MostRecentValue = value,
            !.MostRecentDay = timeInDays,
            !.MostRecentMin = timeMin,
            !.lowestValue = IF ts.lowestValue = -1 \/ value < ts.lowestValue
                            THEN value ELSE ts.lowestValue]
    IN  IF ts.OldestDay = -1 /\ ts.OldestMin = -1
        THEN [raised |-> FALSE,
              obj |-> [appended EXCEPT !.OldestDay = timeInDays, !.OldestMin = timeMin]]
        ELSE IF timeInDays - ts.OldestDay > ts.maxHistoryInDays
        THEN [raised |-> TRUE,
              obj |-> [appended EXCEPT !.ValueQueue = Tail(appended.ValueQueue),
                                       !.OldestDay = appended.ValueQueue[2].d]]
        ELSE [raised |-> FALSE, obj |-> appended]

\* No function object (None).
NoFunction == FuncReset("None", 0, TRUE)

\* s.lower() for the words explored.
Lower(word) ==
    IF word = "Sum3" THEN "sum3"
    ELSE IF word = "RATE30" THEN "rate30"
    ELSE word

\* CreateTimeValueFunction for the names explored; any other name gives
\* None, which is NoFunction here.
CreateTimeValueFunction(functionNameStr, varName) ==
    LET name == IF Len(functionNameStr) = 1 THEN Lower(functionNameStr[1]) ELSE ""
    IN  IF name = "sum3" THEN FuncReset("CSum", 3, TRUE)
        ELSE IF name = "rate30" THEN FuncReset("CRateValue", 30, TRUE)
        ELSE IF name = "range3" THEN FuncReset("CRangeValue", 3, TRUE)
        ELSE NoFunction

NoCall == [called |-> FALSE, value |-> 0, dayNum |-> 0, out |-> RatInvalid,
           hadHistory |-> FALSE, allOlder |-> FALSE]

\* No series (None).
NoSeries == CTimeSeries(0)
NoSeriesCall == [called |-> FALSE, raised |-> FALSE, value |-> 0, timeInDays |-> 0]

FuncIdle ==
    /\ funcObj = FuncReset("None", 0, TRUE)
    /\ funcCalls = 0
    /\ funcLast = NoCall
    /\ baselineCrSeries = NoSeries
    /\ seriesLast = NoSeriesCall

\* A function object made by the factory, or the baseline series made by
\* CompileTimelineImpl.
FuncStart ==
    /\ \/ /\ \/ \E cls \in FuncClasses, numDays \in FuncWindows, fAbsolute \in BOOLEAN :
                  /\ (cls # "CRangeValue" => fAbsolute)
                  /\ funcObj = FuncReset(cls, numDays, fAbsolute)
             \/ funcObj = CreateTimeValueFunction(<<"rate30">>, <<"Cr">>)
          /\ baselineCrSeries = NoSeries
       \/ /\ funcObj = NoFunction
          /\ baselineCrSeries = CTimeSeries(SeriesWindow)
    /\ funcCalls = 0
    /\ funcLast = NoCall
    /\ seriesLast = NoSeriesCall

\* The newest day fed so far (observations arrive in day order).
NewestDay(fo) ==
    IF Len(fo.ValueQueue) = 0 THEN 0 ELSE fo.ValueQueue[Len(fo.ValueQueue)].d

\* The observations a function object is fed, by the length of its window.
ValuesFor(fo) ==
    IF fo.MaxDaysInQueue = 30 THEN LongWindowValues
    ELSE IF fo.cls = "CRangeValue" /\ ~fo.fAbsolute THEN RelativeRangeValues
    ELSE FuncValues
DaysFor(fo) ==
    IF fo.MaxDaysInQueue = 30
    THEN {d \in LongWindowDays : d >= NewestDay(fo)}
    ELSE NewestDay(fo)..MaxFuncDay

\* One observation is fed to the function object.
FuncComputeNewValue ==
    /\ funcObj # NoFunction
    /\ funcCalls < MaxFuncCalls
    /\ \E value \in ValuesFor(funcObj), dayNum \in DaysFor(funcObj) :
         LET r == ComputeNewValue(funcObj, value, dayNum)
         IN  /\ funcObj' = r.obj
             /\ funcLast' = [called |-> TRUE, value |-> value, dayNum |-> dayNum,
                             out |-> r.out,
                             hadHistory |-> Len(funcObj.ValueQueue) > 0,
                             allOlder |-> \A k \in 1..Len(funcObj.ValueQueue) :
                                 dayNum - funcObj.ValueQueue[k].d > funcObj.MaxDaysInQueue]
    /\ funcCalls' = funcCalls + 1
    /\ UNCHANGED <<baselineCrSeries, seriesLast, notFuncVars>>

\* The caller resets the object before the next subject.
FuncResetCall ==
    /\ funcCalls < MaxFuncCalls
    /\ Len(funcObj.ValueQueue) > 0
    /\ funcObj' = Reset(funcObj)
    /\ funcLast' = NoCall
    /\ UNCHANGED <<funcCalls, baselineCrSeries, seriesLast, notFuncVars>>

\* One observation is fed to the baseline series; a call that raised ends
\* the compile that made it.
SeriesAddNewValue ==
    /\ baselineCrSeries # NoSeries
    /\ ~seriesLast.raised
    /\ funcCalls < MaxFuncCalls
    /\ \E value \in FuncValues,
          timeInDays \in {d \in SeriesDays : d >= baselineCrSeries.MostRecentDay} :
         \E r \in {AddNewValue(baselineCrSeries, value, timeInDays, 0)} :
            /\ baselineCrSeries' = r.obj
            /\ seriesLast' = [called |-> TRUE, raised |-> r.raised, value |-> value,
                               timeInDays |-> timeInDays]
    /\ funcCalls' = funcCalls + 1
    /\ UNCHANGED <<funcObj, funcLast, notFuncVars>>

NextFunc ==
    \/ FuncComputeNewValue
    \/ FuncResetCall
    \/ SeriesAddNewValue

(***************************************************************************)
(* VALUE QUERY (TDFFileReader.GetNamedValueFromTimeline)                   *)
(***************************************************************************)

\* Bounds of the compiled timelines and references explored.
MaxTimePoints == 2
MaxQueryDay == 3
MaxOffset == 2

\* The snapshot entry of the queried variable at one TimePoint: absent from
\* the 'data' dict, or present with a value (TDF_INVALID_VALUE included).
Absent == [has |-> FALSE, v |-> TDF_INVALID_VALUE]
Present(v) == [has |-> TRUE, v |-> v]
QueryEntries == {Absent, Present(TDF_INVALID_VALUE), Present(5), Present(6)}

TimePoint(day, entry) == [TimeDays |-> day, data |-> entry]

\* The days of a timeline: up to maxLen days of 0..maxDay, in order.
RECURSIVE SortedDays(_)
SortedDays(S) ==
    IF S = {} THEN <<>>
    ELSE LET first == CHOOSE d \in S : \A e \in S : d <= e
         IN  <<first>> \o SortedDays(S \ {first})

DaySeqs(maxDay, maxLen) ==
    {SortedDays(S) : S \in {T \in SUBSET (0..maxDay) : T # {} /\ Cardinality(T) <= maxLen}}

\* The days of a timeline compiled from nodes in any order: a node on the
\* day of the latest TimePoint joins it, so neighbours differ.
DayOrders(maxDay, maxLen) ==
    {s \in UNION {[1..n -> 0..maxDay] : n \in 1..maxLen} :
        \A i \in 1..(Len(s) - 1) : s[i] # s[i + 1]}

\* The timelines on the given days whose snapshots come from entries.
TimelinesOn(days, entries) ==
    {[i \in 1..Len(days) |-> TimePoint(days[i], e[i])] : e \in [1..Len(days) -> entries]}

\* self.CompiledTimeline[i] and self.LastTimeLineIndex, with Python's
\* 0-based index.
EntryAt(tl, i) == tl[i + 1]
DayAt(tl, i) == tl[i + 1].TimeDays
LastIndex(tl) == Len(tl) - 1

\* The four loops that move to the start of the range.
RECURSIVE SeekForwardUp(_, _, _)
SeekForwardUp(tl, i, firstDayInRange) ==
    IF i < LastIndex(tl) /\ ~(DayAt(tl, i) >= firstDayInRange)
    THEN SeekForwardUp(tl, i + 1, firstDayInRange) ELSE i

RECURSIVE SeekForwardDown(_, _, _, _)
SeekForwardDown(tl, current, test, firstDayInRange) ==
    IF test >= 0 /\ ~(DayAt(tl, test) < firstDayInRange)
    THEN SeekForwardDown(tl, test, test - 1, firstDayInRange) ELSE current

RECURSIVE SeekBackwardUp(_, _, _, _)
SeekBackwardUp(tl, current, test, firstDayInRange) ==
    IF test < LastIndex(tl) /\ ~(DayAt(tl, test) > firstDayInRange)
    THEN SeekBackwardUp(tl, test, test + 1, firstDayInRange) ELSE current

RECURSIVE SeekBackwardDown(_, _, _)
SeekBackwardDown(tl, i, firstDayInRange) ==
    IF i >= 0 /\ ~(DayAt(tl, i) <= firstDayInRange)
    THEN SeekBackwardDown(tl, i - 1, firstDayInRange) ELSE i

\* What a search loop leaves: fFoundIt, result, matchingRangeDay and the
\* TimePoints whose 'data' it read.
SearchState(found, result, day, reads) ==
    [fFoundIt |-> found, result |-> result, matchingRangeDay |-> day, reads |-> reads]

RECURSIVE SearchBackward(_, _, _, _)
SearchBackward(tl, i, lastDayNumInRange, st) ==
    IF i < 0 \/ DayAt(tl, i) < lastDayNumInRange THEN st
    ELSE LET e == EntryAt(tl, i).data
             st2 == [st EXCEPT !.reads = st.reads \cup {i},
                               !.result = IF e.has THEN RatOfInt(e.v) ELSE st.result]
         IN  IF e.has /\ e.v # TDF_INVALID_VALUE
             THEN [st2 EXCEPT !.fFoundIt = TRUE, !.matchingRangeDay = DayAt(tl, i)]
             ELSE SearchBackward(tl, i - 1, lastDayNumInRange, st2)

RECURSIVE SearchForward(_, _, _, _)
SearchForward(tl, i, lastDayNumInRange, st) ==
    IF i > LastIndex(tl) \/ DayAt(tl, i) > lastDayNumInRange THEN st
    ELSE LET e == EntryAt(tl, i).data
             st2 == [st EXCEPT !.reads = st.reads \cup {i},
                               !.result = IF e.has THEN RatOfInt(e.v) ELSE st.result]
         IN  IF e.has /\ e.v # TDF_INVALID_VALUE
             THEN [st2 EXCEPT !.fFoundIt = TRUE, !.matchingRangeDay = DayAt(tl, i)]
             ELSE SearchForward(tl, i + 1, lastDayNumInRange, st2)

\* The second half of GetNamedValueFromTimeline ("now the hard part"),
\* entered with the result and the reads so far.  raised: the backward
\* search whose range starts on the current day assigns no start index
\* (none of the four branches is taken) and the read of it raises.
DirectionalSearch(tl, startOffsetRange, endOffsetRange, rangeOption, timeLineIndex, prevUsedRangeDay, result, reads) ==
    LET currentDayNum == DayAt(tl, timeLineIndex)
        referenceDay == IF rangeOption = VARIABLE_RANGE_LAST_MATCH
                        THEN prevUsedRangeDay ELSE currentDayNum
        firstDayInRange == referenceDay + startOffsetRange
        lastDayNumInRange == referenceDay + endOffsetRange
        fSearchForward == ~(firstDayInRange > lastDayNumInRange)
        unassigned == ~fSearchForward /\ firstDayInRange = currentDayNum
        currentTimeLineIndex ==
            IF fSearchForward /\ firstDayInRange >= currentDayNum
            THEN SeekForwardUp(tl, timeLineIndex, firstDayInRange)
            ELSE IF fSearchForward
            THEN SeekForwardDown(tl, timeLineIndex, timeLineIndex, firstDayInRange)
            ELSE IF firstDayInRange > currentDayNum
            THEN SeekBackwardUp(tl, timeLineIndex, timeLineIndex, firstDayInRange)
            ELSE SeekBackwardDown(tl, timeLineIndex, firstDayInRange)
        st0 == SearchState(FALSE, result, -1, reads)
        st == IF unassigned THEN st0
              ELSE IF fSearchForward
              THEN SearchForward(tl, currentTimeLineIndex, lastDayNumInRange, st0)
              ELSE SearchBackward(tl, currentTimeLineIndex, lastDayNumInRange, st0)
    IN  [raised |-> unassigned, directional |-> TRUE,
         fFoundIt |-> st.fFoundIt, result |-> st.result,
         matchingRangeDay |-> st.matchingRangeDay, reads |-> st.reads,
         firstDayInRange |-> firstDayInRange,
         lastDayNumInRange |-> lastDayNumInRange]

\* A return from the first half of the function.
EarlyReturn(found, result, day, reads) ==
    [raised |-> FALSE, directional |-> FALSE,
     fFoundIt |-> found, result |-> result, matchingRangeDay |-> day,
     reads |-> reads, firstDayInRange |-> 0, lastDayNumInRange |-> 0]


\* GetNamedValueFromTimeline without its same-day branch: every reference
\* goes through the range search.
GetNamedValueFromTimelineRangeOnly(tl, startOffsetRange, endOffsetRange, rangeOption, functionObject, timeLineIndex, prevUsedRangeDay) ==
    [ret |-> DirectionalSearch(tl, startOffsetRange, endOffsetRange,
                 rangeOption, timeLineIndex, prevUsedRangeDay, RatInvalid, {}),
     func |-> functionObject, funcOut |-> RatInvalid]

\* TDFFileReader.GetNamedValueFromTimeline.  ret is what it returns, func the
\* function object after the call, funcOut what ComputeNewValue returned
\* (RatInvalid when it was not called).
GetNamedValueFromTimelineImpl(tl, startOffsetRange, endOffsetRange, rangeOption, functionObject, timeLineIndex, prevUsedRangeDay) ==
    LET currentDayNum == DayAt(tl, timeLineIndex)
        latestValues == EntryAt(tl, timeLineIndex).data
        hasFunction == functionObject # NoFunction
        notFound == EarlyReturn(FALSE, RatInvalid, -1, {timeLineIndex})
        computed == ComputeNewValue(functionObject, latestValues.v, currentDayNum)
    IN  IF (startOffsetRange = 0 /\ endOffsetRange = 0) \/ hasFunction
        THEN IF ~latestValues.has
             THEN [ret |-> notFound, func |-> functionObject, funcOut |-> RatInvalid]
             ELSE IF latestValues.v < TDF_SMALLEST_VALID_VALUE
             THEN [ret |-> notFound, func |-> functionObject, funcOut |-> RatInvalid]
             ELSE IF ~hasFunction
             THEN [ret |-> EarlyReturn(TRUE, RatOfInt(latestValues.v), currentDayNum,
                                       {timeLineIndex}),
                   func |-> functionObject, funcOut |-> RatInvalid]
             ELSE IF RatLessInt(computed.out, TDF_SMALLEST_VALID_VALUE)
             THEN [ret |-> notFound, func |-> computed.obj, funcOut |-> computed.out]
             ELSE [ret |-> DirectionalSearch(tl, startOffsetRange, endOffsetRange,
                              rangeOption, timeLineIndex, prevUsedRangeDay,
                              computed.out, {timeLineIndex}),
                   func |-> computed.obj, funcOut |-> computed.out]
        ELSE [ret |-> DirectionalSearch(tl, startOffsetRange, endOffsetRange,
                          rangeOption, timeLineIndex, prevUsedRangeDay,
                          RatInvalid, {}),
              func |-> functionObject, funcOut |-> RatInvalid]

NoQuery == [called |-> FALSE]

QueryIdleFields ==
    /\ queryFunc = NoFunction
    /\ queryIndex = 0
    /\ queryOut = NoQuery

QueryIdle ==
    /\ CompiledTimeline = <<>>
    /\ QueryIdleFields

\* A compiled timeline (one TimePoint per day, days increasing), a
\* reference with or without a function (its object
\* freshly reset), and the caller's loop at the first TimePoint.
QueryStart ==
    /\ \E days \in DaySeqs(MaxQueryDay, MaxTimePoints) :
          CompiledTimeline \in TimelinesOn(days, QueryEntries)
    /\ queryFunc \in {NoFunction, FuncReset("CSum", 3, TRUE)}
    /\ queryIndex = 0
    /\ queryOut = NoQuery

\* A compiled timeline that may also hold a medication dose below the
\* invalid threshold: the daily dose of an order is stored as it is
\* computed, whatever its sign.
LookupEntries == QueryEntries \cup {Present(2 * TDF_SMALLEST_VALID_VALUE)}
LookupStart ==
    /\ \E days \in DaySeqs(MaxQueryDay, MaxTimePoints) :
          CompiledTimeline \in TimelinesOn(days, LookupEntries)
    /\ queryFunc \in {NoFunction, FuncReset("CSum", 3, TRUE)}
    /\ queryIndex = 0
    /\ queryOut = NoQuery

\* The caller resolves one reference at the TimePoint its loop is at.
GetNamedValueFromTimeline ==
    /\ queryOut = NoQuery
    /\ \E startOffsetRange \in -MaxOffset..MaxOffset,
          endOffsetRange \in -MaxOffset..MaxOffset,
          rangeOption \in {VARIABLE_RANGE_SIMPLE, VARIABLE_RANGE_LAST_MATCH},
          prevUsedRangeDay \in {-1} \cup {CompiledTimeline[i].TimeDays :
                                              i \in 1..Len(CompiledTimeline)} :
         /\ (rangeOption = VARIABLE_RANGE_SIMPLE => prevUsedRangeDay = -1)
         /\ LET r == GetNamedValueFromTimelineImpl(CompiledTimeline,
                        startOffsetRange, endOffsetRange, rangeOption,
                        queryFunc, queryIndex, prevUsedRangeDay)
            IN  /\ queryFunc' = r.func
                /\ queryOut' = [called |-> TRUE,
                                timeLineIndex |-> queryIndex,
                                sameDayOffsets |-> startOffsetRange = 0 /\ endOffsetRange = 0,
                                hasFunction |-> queryFunc # NoFunction,
                                funcOut |-> r.funcOut,
                                ret |-> r.ret]
    /\ UNCHANGED <<CompiledTimeline, queryIndex, notQueryVars>>

\* The caller's loop moves to the next TimePoint.
QueryNextTimePoint ==
    /\ queryIndex < LastIndex(CompiledTimeline)
    /\ queryIndex' = queryIndex + 1
    /\ queryOut' = NoQuery
    /\ UNCHANGED <<CompiledTimeline, queryFunc, notQueryVars>>

NextQuery ==
    \/ GetNamedValueFromTimeline
    \/ QueryNextTimePoint

(***************************************************************************)
(* TIMELINE COMPILER (TDFFileReader.CompileTimelineImpl)                   *)
(***************************************************************************)

\* g_LabValueInfo: the entries the compiler reads, values in tenths.
g_LabValueInfo ==
    [Cr         |-> [minVal |-> 5,  maxVal |-> 60,  Calculated |-> FALSE],
     BaselineCr |-> [minVal |-> 3,  maxVal |-> 80,  Calculated |-> FALSE],
     InAKI      |-> [minVal |-> 0,  maxVal |-> 10,  Calculated |-> FALSE],
     GFR        |-> [minVal |-> 50, maxVal |-> 600, Calculated |-> TRUE],
     MELD       |-> [minVal |-> 10, maxVal |-> 500, Calculated |-> TRUE]]

\* Bound of the timelines compiled.
MaxCompiledPoints == 3

\* The days of the data nodes and the assignments they carry (tenths):
\* Cr 1.0, 1.4, 2.9, a Cr the range test rejects, and a recorded BaselineCr.
CompileDays == {100, 103, 110}
CompileAssignments ==
    {<<"Cr", 10>>, <<"Cr", 14>>, <<"Cr", 29>>, <<"Cr", 600>>, <<"BaselineCr", 20>>}
CompileVarNameLists == {{"Cr", "BaselineCr"}, {"Cr", "BaselineCr", "InAKI"}}

\* A snapshot is a dict: a function from the names it holds to their values.
DictGet(d, name) == IF name \in DOMAIN d THEN d[name] ELSE TDF_INVALID_VALUE
DictSet(d, name, value) ==
    [n \in DOMAIN d \cup {name} |-> IF n = name THEN value ELSE d[n]]

\* savedInitialDataList for the variables modelled here.
InitialDataList(names) ==
    [n \in names |-> IF n \in {"DiedThisAdmission", "InHospital"} THEN 0
                     ELSE TDF_INVALID_VALUE]

NoStartDates ==
    [CKD5 |-> TDF_INVALID_VALUE, CKD4 |-> TDF_INVALID_VALUE,
     CKD3b |-> TDF_INVALID_VALUE, CKD3a |-> TDF_INVALID_VALUE,
     MELD40 |-> TDF_INVALID_VALUE, MELD30 |-> TDF_INVALID_VALUE,
     MELD20 |-> TDF_INVALID_VALUE, MELD10 |-> TDF_INVALID_VALUE]

\* float("nan"): the float that is not a number, kept as a code no scaled
\* value reaches.  Every comparison of Python floats is false on it.
NaN == 271828182
FloatLess(a, b) == a # NaN /\ b # NaN /\ a < b
FloatAtLeast(a, b) == a # NaN /\ b # NaN /\ a >= b

\* ProcessDataNodeForwardImpl for one assignment labName=labValue.
ProcessDataNodeForwardImpl(data, names, labName, labValue) ==
    LET foundValidLab == /\ labName \in DOMAIN g_LabValueInfo
                         /\ labName \in names
                         /\ labName # "GFR"
        labMinVal == g_LabValueInfo[labName].minVal
        labMaxVal == g_LabValueInfo[labName].maxVal
        raised == IF FloatLess(labValue, labMinVal) THEN labMinVal ELSE labValue
    IN  IF ~foundValidLab THEN data
        ELSE IF \/ FloatLess(labValue, 10 * TDF_SMALLEST_VALID_VALUE)
                \/ FloatAtLeast(labValue, 10 * labMaxVal)
        THEN data
        ELSE DictSet(data, labName,
                     IF FloatLess(labMaxVal, raised) THEN labMaxVal ELSE raised)

\* if (self.Start...Date < 0): self.Start...Date = currentDayNum
SetIfUnset(date, currentDayNum) == IF date < 0 THEN currentDayNum ELSE date

\* The GFR half with a score below 15 recorded as the onset of stage 5
\* alone.
RecordGFRWorstStageOnly(sd, currentGFR, currentDayNum) ==
    IF currentGFR < TDF_SMALLEST_VALID_VALUE THEN sd
    ELSE IF currentGFR < 15
    THEN [sd EXCEPT !.CKD5 = SetIfUnset(@, currentDayNum)]
    ELSE IF currentGFR < 30
    THEN [sd EXCEPT !.CKD4 = SetIfUnset(@, currentDayNum),
                    !.CKD3b = SetIfUnset(@, currentDayNum),
                    !.CKD3a = SetIfUnset(@, currentDayNum),
                    !.CKD5 = TDF_INVALID_VALUE]
    ELSE IF currentGFR < 45
    THEN [sd EXCEPT !.CKD3b = SetIfUnset(@, currentDayNum),
                    !.CKD3a = SetIfUnset(@, currentDayNum),
                    !.CKD4 = TDF_INVALID_VALUE,
                    !.CKD5 = TDF_INVALID_VALUE]
    ELSE IF currentGFR < 60
    THEN [sd EXCEPT !.CKD3a = SetIfUnset(@, currentDayNum),
                    !.CKD3b = TDF_INVALID_VALUE,
                    !.CKD4 = TDF_INVALID_VALUE,
                    !.CKD5 = TDF_INVALID_VALUE]
    ELSE [sd EXCEPT !.CKD3a = TDF_INVALID_VALUE,
                    !.CKD3b = TDF_INVALID_VALUE,
                    !.CKD4 = TDF_INVALID_VALUE,
                    !.CKD5 = TDF_INVALID_VALUE]

\* GFR half of RecordTimeMilestonesOnForwardPass.
RecordGFR(sd, currentGFR, currentDayNum) ==
    IF currentGFR < TDF_SMALLEST_VALID_VALUE THEN sd
    ELSE IF currentGFR < 15
    THEN [sd EXCEPT !.CKD5 = SetIfUnset(@, currentDayNum),
                    !.CKD4 = SetIfUnset(@, currentDayNum),
                    !.CKD3b = SetIfUnset(@, currentDayNum),
                    !.CKD3a = SetIfUnset(@, currentDayNum)]
    ELSE IF currentGFR < 30
    THEN [sd EXCEPT !.CKD4 = SetIfUnset(@, currentDayNum),
                    !.CKD3b = SetIfUnset(@, currentDayNum),
                    !.CKD3a = SetIfUnset(@, currentDayNum),
                    !.CKD5 = TDF_INVALID_VALUE]
    ELSE IF currentGFR < 45
    THEN [sd EXCEPT !.CKD3b = SetIfUnset(@, currentDayNum),
                    !.CKD3a = SetIfUnset(@, currentDayNum),
                    !.CKD4 = TDF_INVALID_VALUE,
                    !.CKD5 = TDF_INVALID_VALUE]
    ELSE IF currentGFR < 60
    THEN [sd EXCEPT !.CKD3a = SetIfUnset(@, currentDayNum),
                    !.CKD3b = TDF_INVALID_VALUE,
                    !.CKD4 = TDF_INVALID_VALUE,
                    !.CKD5 = TDF_INVALID_VALUE]
    ELSE [sd EXCEPT !.CKD3a = TDF_INVALID_VALUE,
                    !.CKD3b = TDF_INVALID_VALUE,
                    !.CKD4 = TDF_INVALID_VALUE,
                    !.CKD5 = TDF_INVALID_VALUE]

\* MELD half of RecordTimeMilestonesOnForwardPass.
RecordMELD(sd, currentMELD, currentDayNum) ==
    IF currentMELD < TDF_SMALLEST_VALID_VALUE THEN sd
    ELSE IF currentMELD >= 40
    THEN [sd EXCEPT !.MELD40 = SetIfUnset(@, currentDayNum),
                    !.MELD30 = SetIfUnset(@, currentDayNum),
                    !.MELD20 = SetIfUnset(@, currentDayNum),
                    !.MELD10 = SetIfUnset(@, currentDayNum)]
    ELSE IF currentMELD >= 30
    THEN [sd EXCEPT !.MELD30 = SetIfUnset(@, currentDayNum),
                    !.MELD20 = SetIfUnset(@, currentDayNum),
                    !.MELD10 = SetIfUnset(@, currentDayNum),
                    !.MELD40 = TDF_INVALID_VALUE]
    ELSE IF currentMELD >= 20
    THEN [sd EXCEPT !.MELD20 = SetIfUnset(@, currentDayNum),
                    !.MELD10 = SetIfUnset(@, currentDayNum),
                    !.MELD30 = TDF_INVALID_VALUE,
                    !.MELD40 = TDF_INVALID_VALUE]
    ELSE IF currentMELD >= 10
    THEN [sd EXCEPT !.MELD10 = SetIfUnset(@, currentDayNum),
                    !.MELD20 = TDF_INVALID_VALUE,
                    !.MELD30 = TDF_INVALID_VALUE,
                    !.MELD40 = TDF_INVALID_VALUE]
    ELSE [sd EXCEPT !.MELD10 = TDF_INVALID_VALUE,
                    !.MELD20 = TDF_INVALID_VALUE,
                    !.MELD30 = TDF_INVALID_VALUE,
                    !.MELD40 = TDF_INVALID_VALUE]

RecordTimeMilestonesImpl(sd, timeLineData, currentDayNum) ==
    LET afterGFR == IF "GFR" \in DOMAIN timeLineData
                    THEN RecordGFR(sd, timeLineData["GFR"], currentDayNum)
                    ELSE sd
    IN  IF "MELD" \in DOMAIN timeLineData
        THEN RecordMELD(afterGFR, timeLineData["MELD"], currentDayNum)
        ELSE afterGFR

\* The BaselineCr block without its correction: FutureBaselineCr follows
\* the lowest Cr, the snapshot keeps the recorded baseline.
ReverseBaselineCrKept(data, names, future) ==
    LET currentCr == DictGet(data, "Cr")
    IN  [data |-> data,
         future |-> IF "BaselineCr" \in names
                       /\ currentCr > TDF_SMALLEST_VALID_VALUE
                       /\ (future < TDF_SMALLEST_VALID_VALUE \/ currentCr < future)
                    THEN currentCr ELSE future]

\* The BaselineCr block of CalculateAllDerivedValuesREVERSEPass: the new
\* FutureBaselineCr and the snapshot after it.
ReverseBaselineCr(data, names, future) ==
    IF "BaselineCr" \notin names THEN [data |-> data, future |-> future]
    ELSE LET baselineCr == DictGet(data, "BaselineCr")
             currentCr == DictGet(data, "Cr")
             newFuture ==
                 IF currentCr > TDF_SMALLEST_VALID_VALUE
                    /\ (future < TDF_SMALLEST_VALID_VALUE \/ currentCr < future)
                 THEN currentCr ELSE future
         IN  [data |-> IF newFuture > TDF_SMALLEST_VALID_VALUE /\ newFuture < baselineCr
                       THEN DictSet(data, "BaselineCr", newFuture) ELSE data,
              future |-> newFuture]

\* The InAKI block: it reads the key 'currentCr', which no snapshot holds.
\* The tests are baselineCr <= 1.5 and deltaCr >= 0.3, or
\* deltaCr >= 1.5 * baselineCr, here in tenths.
ReverseInAKI(data, names, currentDayNum) ==
    IF "InAKI" \notin names THEN data
    ELSE LET currentCr == DictGet(data, "currentCr")
             baselineCr == DictGet(data, "BaselineCr")
             deltaCr == currentCr - baselineCr
             inAKI ==
                 IF currentCr > TDF_SMALLEST_VALID_VALUE
                    /\ baselineCr > TDF_SMALLEST_VALID_VALUE
                    /\ \/ (baselineCr <= 15 /\ deltaCr >= 3)
                       \/ 2 * deltaCr >= 3 * baselineCr
                 THEN 1 ELSE 0
             withAKI == DictSet(data, "InAKI", inAKI)
         IN  IF inAKI = 1
             THEN DictSet(withAKI, "NextAKIDate", currentDayNum)
             ELSE DictSet(withAKI, "NextCrAtBaselineDate", currentDayNum)

CalculateAllDerivedValuesREVERSEPass(data, names, future, currentDayNum) ==
    LET b == ReverseBaselineCr(data, names, future)
    IN  [data |-> ReverseInAKI(b.data, names, currentDayNum), future |-> b.future]

\* The handler without the test that the death date is still unset.
ProcessEventNodeInReverseImplOverwriting(dates, reversePassTimeLineData, eventClass, eventDateDays) ==
    IF eventClass = "Admit"
    THEN [dates EXCEPT !.NextFutureDischargeDate = TDF_INVALID_VALUE]
    ELSE IF eventClass = "Discharge"
    THEN [NextFutureDischargeDate |-> eventDateDays,
          EventualDeathDate |->
              IF /\ "DiedThisAdmission" \in DOMAIN reversePassTimeLineData
                 /\ reversePassTimeLineData["DiedThisAdmission"] > 0
              THEN eventDateDays ELSE dates.EventualDeathDate]
    ELSE dates

\* ProcessEventNodeInReverseImpl for one event node of the TimePoint.
ProcessEventNodeInReverseImpl(dates, reversePassTimeLineData, eventClass, eventDateDays) ==
    IF eventClass = "Admit"
    THEN [dates EXCEPT !.NextFutureDischargeDate = TDF_INVALID_VALUE]
    ELSE IF eventClass = "Discharge"
    THEN [NextFutureDischargeDate |-> eventDateDays,
          EventualDeathDate |->
              IF /\ "DiedThisAdmission" \in DOMAIN reversePassTimeLineData
                 /\ reversePassTimeLineData["DiedThisAdmission"] > 0
                 /\ dates.EventualDeathDate <= 0
              THEN eventDateDays ELSE dates.EventualDeathDate]
    ELSE dates

\* for currentNode in timelineEntry['eventNodeList'], from the k-th node on.
RECURSIVE ProcessEventNodesInReverse(_, _, _, _, _)
ProcessEventNodesInReverse(dates, reversePassTimeLineData, eventNodeList, currentDayNum, k) ==
    IF k > Len(eventNodeList) THEN dates
    ELSE Only({ProcessEventNodesInReverse(next, reversePassTimeLineData, eventNodeList,
                                          currentDayNum, k + 1) :
               next \in {ProcessEventNodeInReverseImpl(dates, reversePassTimeLineData,
                             eventNodeList[k].C, currentDayNum)}})

\* The blocks of CalculateAllDerivedValuesREVERSEPass that hand the dates of
\* future events to the snapshot.
ReverseFutureEvents(data, names, dates, currentDayNum) ==
    LET withDeath ==
            IF "EventualDeathDate" \in names
            THEN DictSet(data, "EventualDeathDate", dates.EventualDeathDate) ELSE data
    IN  IF "Future_Days_Until_Discharge" \in names
        THEN DictSet(withDeath, "Future_Days_Until_Discharge",
                 IF /\ "InHospital" \in DOMAIN withDeath
                    /\ withDeath["InHospital"] > 0
                    /\ dates.NextFutureDischargeDate > 0
                 THEN Max(dates.NextFutureDischargeDate - currentDayNum, 0)
                 ELSE TDF_INVALID_VALUE)
        ELSE withDeath

CompileIdle ==
    /\ compilePc = "idle"
    /\ compileIndex = 0
    /\ allValueVarNameList = {}
    /\ fCarryForwardPreviousDataValues = TRUE
    /\ latestTimeLineEntryTimeDays = TDF_INVALID_VALUE
    /\ FutureBaselineCr = TDF_INVALID_VALUE
    /\ NextFutureDischargeDate = TDF_INVALID_VALUE
    /\ EventualDeathDate = TDF_INVALID_VALUE
    /\ StartDates = NoStartDates

\* CompileTimelineImpl up to its node loop.
CompileStart ==
    /\ CompiledTimeline = <<>>
    /\ compilePc = "forward"
    /\ compileIndex = 0
    /\ allValueVarNameList \in CompileVarNameLists
    /\ fCarryForwardPreviousDataValues \in BOOLEAN
    /\ latestTimeLineEntryTimeDays = TDF_INVALID_VALUE
    /\ FutureBaselineCr = TDF_INVALID_VALUE
    /\ NextFutureDischargeDate = TDF_INVALID_VALUE
    /\ EventualDeathDate = TDF_INVALID_VALUE
    /\ StartDates = NoStartDates

\* One turn of the node loop for a data node <D C="L" T=day>name=value</D>,
\* the nodes in any order of their days.  None of the variables modelled is
\* Calculated, so the derived-value loop after the node changes nothing.
ProcessDataNodeForward ==
    /\ compilePc = "forward"
    /\ \E labDateDays \in CompileDays, assignment \in CompileAssignments :
         /\ \/ latestTimeLineEntryTimeDays = labDateDays
            \/ Len(CompiledTimeline) < MaxCompiledPoints
         /\ LET reuseLatestData == latestTimeLineEntryTimeDays = labDateDays
                n == Len(CompiledTimeline)
                newDataList ==
                    IF fCarryForwardPreviousDataValues /\ n > 0
                    THEN CompiledTimeline[n].data
                    ELSE InitialDataList(allValueVarNameList)
                timeline ==
                    IF reuseLatestData /\ n > 0 THEN CompiledTimeline
                    ELSE Append(CompiledTimeline, TimePoint(labDateDays, newDataList))
                last == Len(timeline)
            IN  /\ CompiledTimeline' =
                       [timeline EXCEPT ![last].data =
                           ProcessDataNodeForwardImpl(@, allValueVarNameList,
                                                      assignment[1], assignment[2])]
                /\ latestTimeLineEntryTimeDays' = labDateDays
    /\ UNCHANGED <<compilePc, compileIndex, allValueVarNameList,
                   fCarryForwardPreviousDataValues, FutureBaselineCr, NextFutureDischargeDate,
                   EventualDeathDate, StartDates,
                   notCompileVars>>

\* The node loop ends: LastTimeLineIndex is set and the sweep starts.
FinishForwardPass ==
    /\ compilePc = "forward"
    /\ compilePc' = IF Len(CompiledTimeline) = 0 THEN "done" ELSE "sweep"
    /\ compileIndex' = 0
    /\ UNCHANGED <<CompiledTimeline, allValueVarNameList,
                   fCarryForwardPreviousDataValues, latestTimeLineEntryTimeDays,
                   FutureBaselineCr, NextFutureDischargeDate,
                   EventualDeathDate, StartDates, notCompileVars>>

\* One turn of the stage-onset sweep; after the last TimePoint the reverse
\* pass starts there.
RecordTimeMilestonesOnForwardPass ==
    /\ compilePc = "sweep"
    /\ LET timelineEntry == EntryAt(CompiledTimeline, compileIndex)
       IN  StartDates' = RecordTimeMilestonesImpl(StartDates, timelineEntry.data,
                                                  timelineEntry.TimeDays)
    /\ IF compileIndex < LastIndex(CompiledTimeline)
       THEN compileIndex' = compileIndex + 1 /\ compilePc' = "sweep"
       ELSE compileIndex' = compileIndex /\ compilePc' = "reverse"
    /\ UNCHANGED <<CompiledTimeline, allValueVarNameList,
                   fCarryForwardPreviousDataValues, latestTimeLineEntryTimeDays,
                   FutureBaselineCr, NextFutureDischargeDate,
                   EventualDeathDate, notCompileVars>>

\* One turn of the reverse pass: the event nodes of the TimePoint, in the
\* order they were read, then the derived values.
ReversePassStep ==
    /\ compilePc = "reverse"
    /\ LET timelineEntry == EntryAt(CompiledTimeline, compileIndex)
           hasEvents == "eventNodeList" \in DOMAIN timelineEntry
           dates == ProcessEventNodesInReverse(
                        [NextFutureDischargeDate |-> NextFutureDischargeDate,
                         EventualDeathDate |-> EventualDeathDate],
                        timelineEntry.data,
                        IF hasEvents THEN timelineEntry.eventNodeList ELSE <<>>,
                        timelineEntry.TimeDays, 1)
           r == CalculateAllDerivedValuesREVERSEPass(timelineEntry.data,
                    allValueVarNameList, FutureBaselineCr, timelineEntry.TimeDays)
           data == ReverseFutureEvents(r.data, allValueVarNameList, dates,
                                       timelineEntry.TimeDays)
       IN  /\ CompiledTimeline' =
                  IF hasEvents
                  THEN [CompiledTimeline EXCEPT ![compileIndex + 1].data = data,
                                                ![compileIndex + 1].eventNodeList = <<>>]
                  ELSE [CompiledTimeline EXCEPT ![compileIndex + 1].data = data]
           /\ FutureBaselineCr' = r.future
           /\ NextFutureDischargeDate' = dates.NextFutureDischargeDate
           /\ EventualDeathDate' = dates.EventualDeathDate
    /\ IF compileIndex > 0
       THEN compileIndex' = compileIndex - 1 /\ compilePc' = "reverse"
       ELSE compileIndex' = compileIndex /\ compilePc' = "done"
    /\ UNCHANGED <<allValueVarNameList, fCarryForwardPreviousDataValues,
                   latestTimeLineEntryTimeDays, StartDates, notCompileVars>>

NextCompile ==
    \/ ProcessDataNodeForward
    \/ FinishForwardPass
    \/ RecordTimeMilestonesOnForwardPass
    \/ ReversePassStep

\* ---- the sweep on compiled scores ----

\* Bounds of the timelines swept.
MaxSweepPoints == 3
MaxSweepDay == 2

\* GFR and MELD as the forward pass left them in the snapshots: invalid, or
\* a rounded score; one score per band, on the band's edge where it has one.
GFRScores == {TDF_INVALID_VALUE, 14, 15, 30, 45, 60}
MELDScores == {TDF_INVALID_VALUE, 40, 30, 20, 10, 9}
GFRSnapshots == {[n \in {"GFR"} |-> g] : g \in GFRScores}
MELDSnapshots == {[n \in {"MELD"} |-> m] : m \in MELDScores}

\* CompileTimelineImpl after its node loop, about to sweep the timeline of
\* one reader: the same variable in every snapshot, the days in the order
\* of the nodes.
SweepStart ==
    /\ \E days \in DayOrders(MaxSweepDay, MaxSweepPoints),
          snapshots \in {GFRSnapshots, MELDSnapshots} :
          CompiledTimeline \in TimelinesOn(days, snapshots)
    /\ compilePc = "sweep"
    /\ compileIndex = 0
    /\ allValueVarNameList = DOMAIN CompiledTimeline[1].data
    /\ fCarryForwardPreviousDataValues = TRUE
    /\ latestTimeLineEntryTimeDays = CompiledTimeline[Len(CompiledTimeline)].TimeDays
    /\ FutureBaselineCr = TDF_INVALID_VALUE
    /\ NextFutureDischargeDate = TDF_INVALID_VALUE
    /\ EventualDeathDate = TDF_INVALID_VALUE
    /\ StartDates = NoStartDates

NextSweep ==
    \/ RecordTimeMilestonesOnForwardPass
    \/ ReversePassStep

(***************************************************************************)
(* REQUESTED-VARIABLE LIST (TDFFileReader.ParseVariableList)               *)
(***************************************************************************)

\* A string is a sequence of pieces: a word, a number, a space or one
\* marker character.  "" is the empty sequence.
VARIABLE_LIST_SEPARATOR == ";"
VARIABLE_START_OFFSET_MARKER == "["
VARIABLE_STOP_OFFSET_MARKER == "]"
VARIABLE_OFFSET_RANGE_MARKER == ":"
VARIABLE_FUNCTION_MARKER == "."
VARIABLE_RANGE_LAST_MATCH_MARKER == "@"

\* Bounds of the calls explored: references in an input list, and calls
\* made on a constructed reader.
MaxInputs == 2
MaxParseCalls == 2

\* sep in s, and the place of its first occurrence.
Contains(s, sep) == \E i \in 1..Len(s) : s[i] = sep
FirstIndex(s, sep) ==
    CHOOSE i \in 1..Len(s) : s[i] = sep /\ \A j \in 1..(i - 1) : s[j] # sep

\* s.split(sep, 1)
SplitOnce(s, sep) ==
    IF Contains(s, sep)
    THEN <<SubSeq(s, 1, FirstIndex(s, sep) - 1),
           SubSeq(s, FirstIndex(s, sep) + 1, Len(s))>>
    ELSE <<s>>

\* s.split(sep)
RECURSIVE Split(_, _)
Split(s, sep) ==
    IF Contains(s, sep)
    THEN <<SplitOnce(s, sep)[1]>> \o Split(SplitOnce(s, sep)[2], sep)
    ELSE <<s>>

\* s.replace(" ", "")
RemoveSpaces(s) == SelectSeq(s, LAMBDA c : c # " ")

\* int(s) for the numbers explored; any other string raises ValueError.
IntLiterals == ("-2" :> -2) @@ ("-1" :> -1) @@ ("0" :> 0) @@ ("1" :> 1) @@ ("2" :> 2)
IsInt(s) == Len(s) = 1 /\ s[1] \in DOMAIN IntLiterals
IntOf(s) == IntLiterals[s[1]]

\* 'VariableDependencies' of the g_LabValueInfo entries explored.
VariableDependencies ==
    [Cr         |-> <<>>,
     Na         |-> <<>>,
     Tbili      |-> <<>>,
     INR        |-> <<>>,
     WtKg       |-> <<>>,
     IsMale     |-> <<>>,
     AgeInYrs   |-> <<>>,
     GFR        |-> <<"WtKg", ";", "AgeInYrs", ";", "Cr", ";", "IsMale">>,
     MELD       |-> <<"Cr", ";", "Na", ";", "Tbili", ";", "INR">>,
     BaselineCr |-> <<"Cr">>,
     InAKI      |-> <<"Cr", ";", "BaselineCr">>]

\* valueName in g_LabValueInfo; labInfo is the entry's key, or "None".
InLabValueInfo(valueName) ==
    Len(valueName) = 1 /\ valueName[1] \in DOMAIN VariableDependencies
LabInfoOf(valueName) == IF InLabValueInfo(valueName) THEN valueName[1] ELSE "None"

\* TDF_ParseOneVariableName.  raised: an int() of the offsets raised
\* ValueError.
TDF_ParseOneVariableName(valueNameStr) ==
    LET stripped == RemoveSpaces(valueNameStr)
        hasFunction == Contains(stripped, VARIABLE_FUNCTION_MARKER)
        functionParts == SplitOnce(stripped, VARIABLE_FUNCTION_MARKER)
        beforeFunction == IF hasFunction THEN functionParts[1] ELSE stripped
        functionName == IF hasFunction THEN functionParts[2] ELSE <<>>
        hasOffset == Contains(beforeFunction, VARIABLE_START_OFFSET_MARKER)
        offsetParts == SplitOnce(beforeFunction, VARIABLE_START_OFFSET_MARKER)
        valueName == IF hasOffset THEN offsetParts[1] ELSE beforeFunction
        rawOffsetStr ==
            IF hasOffset
            THEN SplitOnce(offsetParts[2], VARIABLE_STOP_OFFSET_MARKER)[1]
            ELSE <<>>
        lastMatch == /\ rawOffsetStr # <<>>
                     /\ rawOffsetStr[1] = VARIABLE_RANGE_LAST_MATCH_MARKER
        valueOffsetStr == IF lastMatch THEN Tail(rawOffsetStr) ELSE rawOffsetStr
        isRange == Contains(valueOffsetStr, VARIABLE_OFFSET_RANGE_MARKER)
        rangeParts == SplitOnce(valueOffsetStr, VARIABLE_OFFSET_RANGE_MARKER)
        startStr == IF isRange THEN rangeParts[1] ELSE valueOffsetStr
        stopStr == IF isRange THEN rangeParts[2] ELSE valueOffsetStr
        startOk == (isRange /\ startStr = <<>>) \/ IsInt(startStr)
        stopOk == (isRange /\ stopStr = <<>>) \/ IsInt(stopStr)
        raised == hasOffset /\ ~(startOk /\ stopOk)
    IN [raised |-> raised,
        labInfo |-> IF raised THEN "None" ELSE LabInfoOf(valueName),
        valueName |-> valueName,
        valueOffsetStartRange |->
            IF hasOffset /\ IsInt(startStr) THEN IntOf(startStr) ELSE 0,
        valueOffsetStopRange |->
            IF hasOffset /\ IsInt(stopStr) THEN IntOf(stopStr) ELSE 0,
        valueOffsetRangeOption |->
            IF lastMatch THEN VARIABLE_RANGE_LAST_MATCH ELSE VARIABLE_RANGE_SIMPLE,
        functionName |-> functionName]

\* The reader's fields ParseVariableList writes, before the constructor's
\* call.
NoLists ==
    [numInputValues |-> 0,
     resultLabInfo |-> "None",
     resultValueName |-> <<>>,
     resultValueOffsetStartRange |-> 0,
     resultValueOffsetStopRange |-> 0,
     resultValueOffsetRangeOption |-> VARIABLE_RANGE_SIMPLE,
     allValueVarNameList |-> <<>>,
     allValuesLabInfoList |-> <<>>,
     AllValuesOffsetStartRange |-> <<>>,
     AllValuesOffsetStopRange |-> <<>>,
     AllValuesOffsetRangeOption |-> <<>>,
     allValuesFunctionNameList |-> <<>>,
     allValuesFunctionObjectList |-> <<>>]

\* requirePropertyNameList: None, or a list of references.
NoPropertyList == [isNone |-> TRUE, names |-> <<>>]
PropertyList(names) == [isNone |-> FALSE, names |-> names]

\* The input names added to the list the reader already holds instead of
\* replacing it.
AssignInputNamesKept(lists, inputNameListStr) ==
    [lists EXCEPT
        !.allValueVarNameList = @ \o Split(inputNameListStr, VARIABLE_LIST_SEPARATOR),
        !.numInputValues = Len(Split(inputNameListStr, VARIABLE_LIST_SEPARATOR))]

\* self.allValueVarNameList = inputNameListStr.split(VARIABLE_LIST_SEPARATOR)
\* and the count of the input values.
AssignInputNames(lists, inputNameListStr) ==
    [lists EXCEPT
        !.allValueVarNameList = Split(inputNameListStr, VARIABLE_LIST_SEPARATOR),
        !.numInputValues = Len(Split(inputNameListStr, VARIABLE_LIST_SEPARATOR))]

\* The result's fields once its name is parsed, or their defaults.
AssignResult(lists, parsed) ==
    [lists EXCEPT
        !.resultLabInfo = parsed.labInfo,
        !.resultValueName = parsed.valueName,
        !.resultValueOffsetStartRange = parsed.valueOffsetStartRange,
        !.resultValueOffsetStopRange = parsed.valueOffsetStopRange,
        !.resultValueOffsetRangeOption = parsed.valueOffsetRangeOption]
NoResult ==
    [labInfo |-> "None", valueName |-> <<>>, valueOffsetStartRange |-> 0,
     valueOffsetStopRange |-> 0, valueOffsetRangeOption |-> VARIABLE_RANGE_SIMPLE]

\* The result name and the filter names appended, and the parallel lists
\* allocated at their defaults.
AppendAndAllocate(lists, requirePropertyNameList) ==
    LET names == lists.allValueVarNameList
                 \o (IF lists.resultValueName # <<>>
                     THEN <<lists.resultValueName>> ELSE <<>>)
                 \o requirePropertyNameList.names
    IN [lists EXCEPT
        !.allValueVarNameList = names,
        !.allValuesLabInfoList = [i \in 1..Len(names) |-> "None"],
        !.AllValuesOffsetStartRange = [i \in 1..Len(names) |-> 0],
        !.AllValuesOffsetStopRange = [i \in 1..Len(names) |-> 0],
        !.AllValuesOffsetRangeOption = [i \in 1..Len(names) |-> 0],
        !.allValuesFunctionNameList = [i \in 1..Len(names) |-> <<>>],
        !.allValuesFunctionObjectList = [i \in 1..Len(names) |-> NoFunction]]

\* One iteration of the loop that parses the list: the entry at index.
StoreParsed(lists, index, parsed) ==
    [lists EXCEPT
        !.allValueVarNameList[index] = parsed.valueName,
        !.allValuesLabInfoList[index] = parsed.labInfo,
        !.AllValuesOffsetStartRange[index] = parsed.valueOffsetStartRange,
        !.AllValuesOffsetStopRange[index] = parsed.valueOffsetStopRange,
        !.AllValuesOffsetRangeOption[index] = parsed.valueOffsetRangeOption,
        !.allValuesFunctionNameList[index] = parsed.functionName]

\* A dependency appended to every list.
AppendParsed(lists, parsed) ==
    [lists EXCEPT
        !.allValueVarNameList = Append(@, parsed.valueName),
        !.allValuesLabInfoList = Append(@, parsed.labInfo),
        !.AllValuesOffsetStartRange = Append(@, parsed.valueOffsetStartRange),
        !.AllValuesOffsetStopRange = Append(@, parsed.valueOffsetStopRange),
        !.AllValuesOffsetRangeOption = Append(@, parsed.valueOffsetRangeOption),
        !.allValuesFunctionNameList = Append(@, parsed.functionName),
        !.allValuesFunctionObjectList = Append(@, NoFunction)]

InNameList(lists, valueName) ==
    \E i \in 1..Len(lists.allValueVarNameList) :
        lists.allValueVarNameList[i] = valueName

\* One iteration of the loop that parses the initial list.
ParseInitialEntry(lists, index) ==
    Only({IF parsed.raised
          THEN [pc |-> "ValueError", lists |-> lists]
          ELSE [pc |-> "returned", lists |-> StoreParsed(lists, index, parsed)] :
          parsed \in {TDF_ParseOneVariableName(lists.allValueVarNameList[index])}})

\* The loop that parses the initial list, from index on (1-based).
RECURSIVE ParseInitialList(_, _)
ParseInitialList(lists, index) ==
    IF index > Len(lists.allValueVarNameList)
    THEN [pc |-> "returned", lists |-> lists]
    ELSE Only({IF step.pc # "returned" THEN step
               ELSE ParseInitialList(step.lists, index + 1) :
               step \in {ParseInitialEntry(lists, index)}})

\* One name of a dependency list appended even when the list holds it.
AppendDependencyAgain(lists, nameStr) ==
    Only({IF parsed.raised
          THEN [pc |-> "ValueError", lists |-> lists]
          ELSE IF parsed.valueName # <<>>
          THEN [pc |-> "returned", lists |-> AppendParsed(lists, parsed)]
          ELSE [pc |-> "returned", lists |-> lists] :
          parsed \in {TDF_ParseOneVariableName(nameStr)}})

\* One name of a dependency list: it is appended unless it is empty or
\* already in the list.
AppendDependency(lists, nameStr) ==
    Only({IF parsed.raised
          THEN [pc |-> "ValueError", lists |-> lists]
          ELSE IF parsed.valueName # <<>> /\ ~InNameList(lists, parsed.valueName)
          THEN [pc |-> "returned", lists |-> AppendParsed(lists, parsed)]
          ELSE [pc |-> "returned", lists |-> lists] :
          parsed \in {TDF_ParseOneVariableName(nameStr)}})

\* The dependencies of one entry, from the k-th name of its dependency
\* list on.
RECURSIVE AppendDependencies(_, _, _)
AppendDependencies(lists, variableNameList, k) ==
    IF k > Len(variableNameList)
    THEN [pc |-> "returned", lists |-> lists]
    ELSE Only({IF step.pc # "returned" THEN step
               ELSE AppendDependencies(step.lists, variableNameList, k + 1) :
               step \in {AppendDependency(lists, variableNameList[k])}})

\* The function object of the entry at index, when it names a function.
CreateFunctionObject(lists, index) ==
    IF lists.allValuesFunctionNameList[index] # <<>>
    THEN [lists EXCEPT !.allValuesFunctionObjectList[index] =
             CreateTimeValueFunction(lists.allValuesFunctionNameList[index],
                                     lists.allValueVarNameList[index])]
    ELSE lists

\* The dependencies of the entry at index pulled in.
PullDependencies(lists, index) ==
    IF VariableDependencies[lists.allValuesLabInfoList[index]] # <<>>
    THEN AppendDependencies(lists,
             Split(VariableDependencies[lists.allValuesLabInfoList[index]], ";"), 1)
    ELSE [pc |-> "returned", lists |-> lists]

\* One iteration of the loop over the growing list with its checks left
\* out: an entry without a descriptor is skipped and an unknown function
\* leaves no object.
ExpandEntryUnchecked(lists, index) ==
    IF lists.allValuesLabInfoList[index] = "None"
    THEN [pc |-> "returned", lists |-> lists]
    ELSE Only({PullDependencies(withObject, index) :
               withObject \in {CreateFunctionObject(lists, index)}})

\* One iteration of the loop over the growing list: the entry must have a
\* descriptor, its function must be known, and its dependencies are pulled
\* in.
ExpandEntry(lists, index) ==
    IF lists.allValuesLabInfoList[index] = "None"
    THEN [pc |-> "ValueError", lists |-> lists]
    ELSE Only({IF /\ lists.allValuesFunctionNameList[index] # <<>>
                  /\ withObject.allValuesFunctionObjectList[index] = NoFunction
               THEN [pc |-> "SystemExit", lists |-> withObject]
               ELSE PullDependencies(withObject, index) :
               withObject \in {CreateFunctionObject(lists, index)}})

\* The loop over the growing list, from index on.
RECURSIVE ExpandList(_, _)
ExpandList(lists, index) ==
    IF index > Len(lists.allValueVarNameList)
    THEN [pc |-> "returned", lists |-> lists]
    ELSE Only({IF step.pc # "returned" THEN step
               ELSE ExpandList(step.lists, index + 1) :
               step \in {ExpandEntry(lists, index)}})

\* The result name parsed and its fields assigned, or their defaults.
ParseResult(lists, resultValueName) ==
    IF resultValueName = <<>>
    THEN [pc |-> "returned", lists |-> AssignResult(lists, NoResult)]
    ELSE Only({IF parsed.raised
               THEN [pc |-> "ValueError", lists |-> lists]
               ELSE IF parsed.labInfo = "None"
               THEN [pc |-> "SystemExit", lists |-> AssignResult(lists, parsed)]
               ELSE [pc |-> "returned", lists |-> AssignResult(lists, parsed)] :
               parsed \in {TDF_ParseOneVariableName(resultValueName)}})

\* The call up to the end of the loop that parses the initial list.
ParseGivenNames(lists, inputNameListStr, resultValueName, requirePropertyNameList) ==
    Only({IF withResult.pc # "returned" THEN withResult
          ELSE Only({ParseInitialList(allocated, 1) :
                     allocated \in {AppendAndAllocate(withResult.lists,
                                                      requirePropertyNameList)}}) :
          withResult \in {ParseResult(AssignInputNames(lists, inputNameListStr),
                                      resultValueName)}})

\* ParseVariableList on a reader whose fields are lists.  pc tells how the
\* call ended: "returned", or the exception that ended it.
ParseVariableList(lists, inputNameListStr, resultValueName, requirePropertyNameList) ==
    Only({IF initial.pc # "returned" THEN initial
          ELSE ExpandList(initial.lists, 1) :
          initial \in {ParseGivenNames(lists, inputNameListStr, resultValueName,
                                       requirePropertyNameList)}})

\* The references, result names and filter lists explored.
References ==
    {<<>>,
     <<"Cr">>,
     <<"Cr", "[", "-1", "]">>,
     <<"Cr", "[", "@", ":", "2", "]">>,
     <<"Cr", "[", "x", "]">>,
     <<"Cr", ".", "rate30">>,
     <<"Cr", ".", "Sum3">>,
     <<"Cr", ".", "bogus">>,
     <<" ", "InAKI">>,
     <<"GFR">>,
     <<"Xx">>}
ResultNames == {<<>>, <<"Cr">>, <<"InAKI">>, <<"Cr", ".", "bogus">>, <<"Xx">>}
PropertyLists ==
    {NoPropertyList, PropertyList(<<>>), PropertyList(<<<<"GFR">>>>),
     PropertyList(<<<<"Xx">>>>), PropertyList(<<<<"Cr", ".", "bogus">>>>)}

\* The references of a list joined by the separator.
RECURSIVE Join(_)
Join(refs) ==
    IF Len(refs) = 1 THEN refs[1]
    ELSE refs[1] \o <<VARIABLE_LIST_SEPARATOR>> \o Join(Tail(refs))

RECURSIVE ReferenceLists(_)
ReferenceLists(maxLen) ==
    IF maxLen = 0 THEN {}
    ELSE {<<r>> : r \in References}
         \cup {Append(l, r) : l \in ReferenceLists(maxLen - 1), r \in References}

ParseArgs(inputNameListStr, resultValueName, requirePropertyNameList) ==
    [inputNameListStr |-> inputNameListStr,
     resultValueName |-> resultValueName,
     requirePropertyNameList |-> requirePropertyNameList]

\* The arguments the reader was constructed with.
ConstructorArgs ==
    {ParseArgs(<<"Cr">>, <<>>, NoPropertyList),
     ParseArgs(<<"Cr", ".", "rate30", ";", "GFR">>, <<"InAKI">>, PropertyList(<<>>)),
     ParseArgs(<<"MELD", "[", "-1", "]">>, <<"Cr">>, PropertyList(<<<<"Cr">>>>))}

NoPrevious == [args |-> ParseArgs(<<>>, <<>>, NoPropertyList), lists |-> NoLists]

ParseIdle ==
    /\ parsePc = "idle"
    /\ parseCalls = 0
    /\ parseArgs = NoPrevious.args
    /\ readerLists = NoLists
    /\ parsePrev = NoPrevious
    /\ expandTable = VariableDependencies
    /\ expandIndex = 0

\* A reader as its constructor leaves it: ParseVariableList has run once,
\* on the constructor's arguments.
ParseStart ==
    /\ parsePc = "returned"
    /\ parseCalls = 0
    /\ parseArgs \in ConstructorArgs
    /\ readerLists = ParseVariableList(NoLists, parseArgs.inputNameListStr,
                         parseArgs.resultValueName,
                         parseArgs.requirePropertyNameList).lists
    /\ parsePrev = NoPrevious
    /\ expandTable = VariableDependencies
    /\ expandIndex = 0

\* Every argument set explored.
AllParseArgs ==
    {ParseArgs(Join(refs), resultValueName, requirePropertyNameList) :
        refs \in ReferenceLists(MaxInputs), resultValueName \in ResultNames,
        requirePropertyNameList \in PropertyLists}

\* ParseVariableList called on the reader: with any arguments, then again
\* with the same ones.
ParseVariableListCall ==
    /\ parsePc = "returned"
    /\ parseCalls < MaxParseCalls
    /\ \E args \in (IF parseCalls = 0 THEN AllParseArgs ELSE {parseArgs}) :
         /\ \E out \in {ParseVariableList(readerLists, args.inputNameListStr,
                            args.resultValueName, args.requirePropertyNameList)} :
               /\ parsePc' = out.pc
               /\ readerLists' = out.lists
         /\ parseArgs' = args
    /\ parsePrev' = [args |-> parseArgs, lists |-> readerLists]
    /\ parseCalls' = parseCalls + 1
    /\ UNCHANGED <<expandTable, expandIndex, notParseVars>>

NextParse == ParseVariableListCall

\* Bound of the reader's list in the dependency loop: the references given
\* and every name of the table.
MaxExpandedNames == 13

\* Descriptor tables over the same names whose dependencies may form
\* cycles: a variable that depends on itself, two that depend on each other
\* (BaselineCr names Cr, InAKI names Cr and BaselineCr), and longer ones
\* (GFR and MELD name Cr, Na and WtKg).
DependencyTables ==
    {[VariableDependencies EXCEPT !.Cr = cr, !.Na = na, !.WtKg = wt] :
        cr \in {<<>>, <<"Cr">>, <<"InAKI">>, <<"MELD", ";", "GFR">>},
        na \in {<<>>, <<"MELD">>},
        wt \in {<<>>, <<"GFR", ";", "WtKg">>}}

\* The dependencies of the entry at index pulled in, with the descriptors
\* of table.
PullDependenciesFrom(table, lists, index) ==
    IF table[lists.allValuesLabInfoList[index]] # <<>>
    THEN AppendDependencies(lists, Split(table[lists.allValuesLabInfoList[index]], ";"), 1)
    ELSE [pc |-> "returned", lists |-> lists]

\* One iteration of the loop over the growing list, with the descriptors of
\* table.
ExpandEntryFrom(table, lists, index) ==
    IF lists.allValuesLabInfoList[index] = "None"
    THEN [pc |-> "ValueError", lists |-> lists]
    ELSE Only({IF /\ lists.allValuesFunctionNameList[index] # <<>>
                  /\ withObject.allValuesFunctionObjectList[index] = NoFunction
               THEN [pc |-> "SystemExit", lists |-> withObject]
               ELSE PullDependenciesFrom(table, withObject, index) :
               withObject \in {CreateFunctionObject(lists, index)}})

\* What the loop that parses the given names leaves.
GivenNames(args) ==
    ParseGivenNames(NoLists, args.inputNameListStr, args.resultValueName,
                    args.requirePropertyNameList)

\* ParseVariableList of a new reader at the start of its dependency loop.
ExpandStart ==
    /\ parseArgs \in {ParseArgs(Join(refs), <<>>, NoPropertyList) :
                          refs \in ReferenceLists(MaxInputs)}
    /\ parsePc = IF GivenNames(parseArgs).pc = "returned"
                 THEN "expanding" ELSE GivenNames(parseArgs).pc
    /\ readerLists = GivenNames(parseArgs).lists
    /\ expandTable \in DependencyTables
    /\ expandIndex = 1
    /\ parseCalls = 0
    /\ parsePrev = NoPrevious

\* One turn of "while (True)": the loop is left at the end of the list,
\* else the entry at index is expanded and index moves on.
ExpandStep ==
    /\ parsePc = "expanding"
    /\ Len(readerLists.allValueVarNameList) <= MaxExpandedNames
    /\ IF expandIndex > Len(readerLists.allValueVarNameList)
       THEN /\ parsePc' = "returned"
            /\ UNCHANGED <<readerLists, expandIndex>>
       ELSE \E step \in {ExpandEntryFrom(expandTable, readerLists, expandIndex)} :
               /\ readerLists' = step.lists
               /\ parsePc' = IF step.pc = "returned" THEN "expanding" ELSE step.pc
               /\ expandIndex' = IF step.pc = "returned"
                                 THEN expandIndex + 1 ELSE expandIndex
    /\ UNCHANGED <<expandTable, parseCalls, parseArgs, parsePrev, notParseVars>>

NextExpand == ExpandStep

\* A turn of the loop seen from its control alone: while the loop runs a
\* turn can be taken, and it moves index or leaves the loop.  The steps of
\* ExpandStep are exactly these, and the loop runs without interruption.
ExpandProgress ==
    /\ parsePc = "expanding"
    /\ Len(readerLists.allValueVarNameList) <= MaxExpandedNames
    /\ parsePc' \in {"expanding", "returned", "ValueError", "SystemExit"}
    /\ expandIndex' \in {expandIndex, expandIndex + 1}
    /\ <<parsePc', expandIndex'>> # <<parsePc, expandIndex>>

(***************************************************************************)
(* OUTCOME CATEGORIES (TDFFileReader.ComputeOutcomeCategory)               *)
(***************************************************************************)

TDF_FUTURE_EVENT_CATEGORY_NOW_OR_PAST == 0
TDF_FUTURE_EVENT_CATEGORY_IN_1_DAY == 1
TDF_FUTURE_EVENT_CATEGORY_IN_7_DAYS == 2
TDF_FUTURE_EVENT_CATEGORY_IN_30_DAYS == 3
TDF_FUTURE_EVENT_CATEGORY_IN_365_DAYS == 4
TDF_FUTURE_EVENT_CATEGORY_IN_3650_DAYS == 5
TDF_FUTURE_EVENT_CATEGORY_NOT_IN_10YRS == 6

\* g_CategoryToNumDays, for the categories that bound a number of days.
g_CategoryToNumDays ==
    (TDF_FUTURE_EVENT_CATEGORY_IN_1_DAY :> 1)
        @@ (TDF_FUTURE_EVENT_CATEGORY_IN_7_DAYS :> 7)
        @@ (TDF_FUTURE_EVENT_CATEGORY_IN_30_DAYS :> 30)
        @@ (TDF_FUTURE_EVENT_CATEGORY_IN_365_DAYS :> 365)
        @@ (TDF_FUTURE_EVENT_CATEGORY_IN_3650_DAYS :> 3650)

\* Bound of the day ComputeOutcomeCategory is called at.
MaxCategoryDay == 7

\* The cascade with each test strict: a gap equal to a limit falls into
\* the next category.
ComputeOutcomeCategoryStrict(currentDate, outcomeDate) ==
    LET daysUntilOutcome == outcomeDate - currentDate
    IN  IF outcomeDate < 0 THEN TDF_FUTURE_EVENT_CATEGORY_NOT_IN_10YRS
        ELSE IF daysUntilOutcome < 0 THEN TDF_FUTURE_EVENT_CATEGORY_NOW_OR_PAST
        ELSE IF daysUntilOutcome < 1 THEN TDF_FUTURE_EVENT_CATEGORY_IN_1_DAY
        ELSE IF daysUntilOutcome < 7 THEN TDF_FUTURE_EVENT_CATEGORY_IN_7_DAYS
        ELSE IF daysUntilOutcome < 30 THEN TDF_FUTURE_EVENT_CATEGORY_IN_30_DAYS
        ELSE IF daysUntilOutcome < 365 THEN TDF_FUTURE_EVENT_CATEGORY_IN_365_DAYS
        ELSE IF daysUntilOutcome < 3650 THEN TDF_FUTURE_EVENT_CATEGORY_IN_3650_DAYS
        ELSE TDF_FUTURE_EVENT_CATEGORY_NOT_IN_10YRS

\* TDFFileReader.ComputeOutcomeCategory
ComputeOutcomeCategory(currentDate, outcomeDate) ==
    LET daysUntilOutcome == outcomeDate - currentDate
    IN  IF outcomeDate < 0 THEN TDF_FUTURE_EVENT_CATEGORY_NOT_IN_10YRS
        ELSE IF daysUntilOutcome <= 0 THEN TDF_FUTURE_EVENT_CATEGORY_NOW_OR_PAST
        ELSE IF daysUntilOutcome <= 1 THEN TDF_FUTURE_EVENT_CATEGORY_IN_1_DAY
        ELSE IF daysUntilOutcome <= 7 THEN TDF_FUTURE_EVENT_CATEGORY_IN_7_DAYS
        ELSE IF daysUntilOutcome <= 30 THEN TDF_FUTURE_EVENT_CATEGORY_IN_30_DAYS
        ELSE IF daysUntilOutcome <= 365 THEN TDF_FUTURE_EVENT_CATEGORY_IN_365_DAYS
        ELSE IF daysUntilOutcome <= 3650 THEN TDF_FUTURE_EVENT_CATEGORY_IN_3650_DAYS
        ELSE TDF_FUTURE_EVENT_CATEGORY_NOT_IN_10YRS

\* The dates of the tracked events the reverse pass hands over: none
\* (TDF_INVALID_VALUE), day 0, and the days around each limit after the
\* days explored.
OutcomeDates ==
    {TDF_INVALID_VALUE, 0}
        \cup UNION {(g_CategoryToNumDays[c] - 1)..(g_CategoryToNumDays[c] + MaxCategoryDay + 1) :
                       c \in DOMAIN g_CategoryToNumDays}

NoOutcomeCall == [called |-> FALSE]
OutcomeIdle == outcomeCall = NoOutcomeCall
OutcomeStart == outcomeCall = NoOutcomeCall

\* The reverse pass computes the category of a tracked event at a
\* TimePoint.
ComputeOutcomeCategoryCall ==
    /\ \E currentDate \in 0..MaxCategoryDay, outcomeDate \in OutcomeDates :
          outcomeCall' = [called |-> TRUE, currentDate |-> currentDate,
                          outcomeDate |-> outcomeDate,
                          category |-> ComputeOutcomeCategory(currentDate, outcomeDate)]
    /\ UNCHANGED notOutcomeVars

NextOutcome == ComputeOutcomeCategoryCall

(***************************************************************************)
(* WRITTEN TIMELINE FILE (TDFFileWriter, then CompileTimelineImpl)         *)
(***************************************************************************)

\* Bound of the data nodes written to a timeline.
MaxFileNodes == 2

\* Numbers in text are sequences of characters.
Digits == <<"0", "1", "2", "3", "4", "5", "6", "7", "8", "9">>
IsDigit(c) == \E i \in 1..10 : Digits[i] = c
DigitValue(c) == (CHOOSE i \in 1..10 : Digits[i] = c) - 1
IsNatText(s) == Len(s) > 0 /\ \A i \in 1..Len(s) : IsDigit(s[i])

RECURSIVE NatOfText(_)
NatOfText(s) ==
    IF Len(s) = 1 THEN DigitValue(s[1])
    ELSE 10 * NatOfText(SubSeq(s, 1, Len(s) - 1)) + DigitValue(s[Len(s)])

RECURSIVE NatText(_)
NatText(n) ==
    IF n < 10 THEN <<Digits[n + 1]>>
    ELSE NatText(n \div 10) \o <<Digits[(n % 10) + 1]>>

\* int(s): an optional sign, then digits; anything else raises ValueError.
IsIntText(s) ==
    \/ IsNatText(s)
    \/ Len(s) > 1 /\ s[1] \in {"-", "+"} /\ IsNatText(Tail(s))
IntOfText(s) ==
    IF s[1] = "-" THEN -NatOfText(Tail(s))
    ELSE IF s[1] = "+" THEN NatOfText(Tail(s))
    ELSE NatOfText(s)

\* "{0:0>2d}".format(n): the decimal text, zero-filled on the left to two
\* characters.
TwoDigits(n) ==
    LET text == IF n < 0 THEN <<"-">> \o NatText(-n) ELSE NatText(n)
    IN  IF Len(text) < 2 THEN <<"0">> \o text ELSE text

\* TDF_MakeTimeStamp
TDF_MakeTimeStamp(days, hours, minutes) ==
    TwoDigits(days) \o <<":">> \o TwoDigits(hours) \o <<":">> \o TwoDigits(minutes)

\* The words of a time code, and whether an int() of them raises.
TimeWordsRaise(timeCode) ==
    LET words == Split(timeCode, ":")
    IN  \/ Len(words) < 3
        \/ \E i \in 1..3 : ~IsIntText(words[i])
        \/ Len(words) >= 4 /\ ~IsIntText(words[4])

\* TDF_ParseTimeStamp: days, hours, minutes.
TDF_ParseTimeStamp(timeCode) ==
    LET words == Split(timeCode, ":")
    IN  [days |-> IntOfText(words[1]), hours |-> IntOfText(words[2]),
         minutes |-> IntOfText(words[3])]

\* TDF_ConvertTimeStampToInt: the time code in seconds.
TDF_ConvertTimeStampToInt(timeCode) ==
    LET words == Split(timeCode, ":")
    IN  IntOfText(words[1]) * 24 * 60 * 60 + IntOfText(words[2]) * 60 * 60
        + IntOfText(words[3]) * 60
        + (IF Len(words) >= 4 THEN IntOfText(words[4]) ELSE 0)

\* str(x) of a float with one decimal, x given in tenths.
FloatText(tenths) ==
    (IF tenths < 0 THEN <<"-">> ELSE <<>>)
    \o NatText(Abs(tenths) \div 10) \o <<".">> \o NatText(Abs(tenths) % 10)

\* float(s) for decimal texts with at most one decimal and for the text
\* "nan": whether it parses, and the value in tenths.
IsNaNText(s) == s = <<"n", "a", "n">>
IsFloatText(s) ==
    LET unsigned == IF Len(s) > 0 /\ s[1] \in {"-", "+"} THEN Tail(s) ELSE s
        parts == SplitOnce(unsigned, ".")
    IN  \/ IsNaNText(unsigned)
        \/ /\ IsNatText(parts[1])
           /\ Len(parts) = 2 => (IsNatText(parts[2]) /\ Len(parts[2]) = 1)
FloatOfText(s) ==
    LET unsigned == IF s[1] \in {"-", "+"} THEN Tail(s) ELSE s
        parts == SplitOnce(unsigned, ".")
        magnitude == 10 * NatOfText(parts[1])
                     + (IF Len(parts) = 2 THEN NatOfText(parts[2]) ELSE 0)
    IN  IF IsNaNText(unsigned) THEN NaN
        ELSE IF s[1] = "-" THEN -magnitude ELSE magnitude

\* valueStr.replace(c, "") for each character WriteDataNode removes (the
\* texts written here hold no '<' or '>').
RemoveWriterCharacters(valueStr) ==
    SelectSeq(valueStr, LAMBDA c : c \notin {">", "<", "+", "-", " "})

\* The node WriteDataNode writes: <D C=classStr T=timeStampStr>valueStr</D>.
DataNode(classStr, timeStampStr, valueStr) ==
    [nodeType |-> "d", C |-> classStr, T |-> timeStampStr, V |-> <<>>,
     text |-> RemoveWriterCharacters(valueStr)]

\* What the writer's caller asks for: a lab value (tenths) on a day, put
\* into text with TDF_MakeTimeStamp and str(), or a malformed datum.
WriterDays == {-5, 3, 10}
WriterValues == {10, 70, -10}
WellFormedRequests ==
    {[wellFormed |-> TRUE, days |-> days, labName |-> "Cr", value |-> value,
      timeStampStr |-> TDF_MakeTimeStamp(days, 0, 0),
      valueStr |-> <<"Cr", "=">> \o FloatText(value)] :
        days \in WriterDays, value \in WriterValues}
MalformedRequests ==
    {[wellFormed |-> FALSE, days |-> 3, labName |-> "Cr", value |-> 10,
      timeStampStr |-> <<"x", ":", "0", "0", ":", "0", "0">>,
      valueStr |-> <<"Cr", "=">> \o FloatText(10)],
     [wellFormed |-> FALSE, days |-> 3, labName |-> "Cr", value |-> 0,
      timeStampStr |-> TDF_MakeTimeStamp(3, 0, 0),
      valueStr |-> <<"Cr", "=", "a", "b", "c">>],
     [wellFormed |-> FALSE, days |-> 3, labName |-> "Cr", value |-> 600,
      timeStampStr |-> TDF_MakeTimeStamp(3, 0, 0),
      valueStr |-> <<"Cr", "=">> \o FloatText(600)]}

\* One assignment of a data node's text: its value is parsed (again after
\* '>' and '<' are removed) and handed on, or the assignment is skipped.
ProcessAssignmentText(data, names, assignment) ==
    LET assignmentParts == Split(assignment, "=")
        labName == IF Len(assignmentParts[1]) = 1 THEN assignmentParts[1][1] ELSE ""
        labvalueStr == assignmentParts[2]
        retryStr == SelectSeq(labvalueStr, LAMBDA c : c \notin {">", "<"})
    IN  IF Len(assignmentParts) < 2 THEN data
        ELSE IF IsFloatText(labvalueStr)
        THEN ProcessDataNodeForwardImpl(data, names, labName, FloatOfText(labvalueStr))
        ELSE IF IsFloatText(retryStr)
        THEN ProcessDataNodeForwardImpl(data, names, labName, FloatOfText(retryStr))
        ELSE data

\* ProcessDataNodeForwardImpl on the text of a node, from the k-th
\* assignment of its list on.
RECURSIVE ProcessDataNodeText(_, _, _, _)
ProcessDataNodeText(data, names, assignmentList, k) ==
    IF k > Len(assignmentList) THEN data
    ELSE Only({ProcessDataNodeText(next, names, assignmentList, k + 1) :
               next \in {ProcessAssignmentText(data, names, assignmentList[k])}})

\* ActionAfterEachTimePeriod of g_LabValueInfo: a drug dose starts every
\* new TimePoint at zero.
ActionAfterEachTimePeriod(valueName) == IF valueName = "VancDose" THEN "zero" ELSE ""
VancDoseMaxVal == 40000

\* The data list a new TimePoint starts from.
NewDataList(previous, names) ==
    [n \in DOMAIN previous |->
        IF n \in names /\ ActionAfterEachTimePeriod(n) = "zero" THEN 0 ELSE previous[n]]

\* One drugInfo of an IMed event, medName:doseStr:doseRoute:dosesPerDay:
\* whether float() or int() raises on it, whether the order is passed over
\* (oral vancomycin, or a dose below 100), and the daily dose (tenths).
DrugOrder(drugInfo) ==
    LET medNameAndDoseParts == Split(drugInfo, ":")
        numNameParts == Len(medNameAndDoseParts)
        medName == IF Len(medNameAndDoseParts[1]) = 1
                   THEN medNameAndDoseParts[1][1] ELSE ""
        givenDoseStr == IF numNameParts >= 2 THEN medNameAndDoseParts[2] ELSE <<"1">>
        doseRoute == IF numNameParts >= 3 THEN medNameAndDoseParts[3] ELSE <<"i">>
        doseStr == IF givenDoseStr \in {<<"0">>, <<>>} THEN <<"1">> ELSE givenDoseStr
        raised == \/ numNameParts >= 4 /\ ~IsIntText(medNameAndDoseParts[4])
                  \/ ~IsFloatText(doseStr)
        doseFloat == FloatOfText(doseStr)
        dosesPerDayInt ==
            IF 2 * doseFloat > VancDoseMaxVal THEN 1
            ELSE IF numNameParts >= 4 THEN IntOfText(medNameAndDoseParts[4]) ELSE 1
    IN  [medName |-> medName,
         raised |-> raised,
         passedOver |-> ~raised /\ medName = "VancDose"
                        /\ (doseRoute = <<"o">> \/ doseFloat < 1000),
         dailyDose |-> IF raised THEN 0 ELSE doseFloat * dosesPerDayInt]

\* The dose added to the day's total, as the line the source leaves
\* commented out does.
RecordDoseAdded(data, medName, dailyDose) ==
    DictSet(data, medName, data[medName] + dailyDose)

\* self.latestTimelineEntryDataList[medName] = (doseFloat * dosesPerDayInt)
RecordDose(data, medName, dailyDose) == DictSet(data, medName, dailyDose)

\* The IMed branch of ProcessEventNodeForwardImpl, from the k-th drugInfo
\* of the event's value on.
RECURSIVE ProcessMedications(_, _, _, _)
ProcessMedications(state, names, drugInfoList, k) ==
    IF k > Len(drugInfoList) \/ state.raised THEN state
    ELSE Only({ProcessMedications(next, names, drugInfoList, k + 1) :
               next \in {LET order == DrugOrder(drugInfoList[k])
                         IN  IF order.medName \notin names THEN state
                             ELSE IF order.raised THEN [state EXCEPT !.raised = TRUE]
                             ELSE IF order.passedOver THEN state
                             ELSE [state EXCEPT !.data =
                                      RecordDose(@, order.medName, order.dailyDose)]}})

\* ProcessEventNodeForwardImpl for the event classes explored: the new data
\* list, and whether the call raised.
ProcessEventNodeForwardImpl(data, names, eventClass, eventValue, eventDateDays) ==
    LET inHospital(v) == IF "InHospital" \in names THEN DictSet(data, "InHospital", v)
                         ELSE data
        admitDate(d, v) == IF "HospitalAdmitDate" \in names
                           THEN DictSet(d, "HospitalAdmitDate", v) ELSE d
    IN  IF eventClass = "Admit"
        THEN [data |-> DictSet(admitDate(inHospital(1), eventDateDays),
                               "Flag_HospitalAdmission", 1),
              raised |-> FALSE]
        ELSE IF eventClass = "Discharge"
        THEN [data |-> DictSet(admitDate(inHospital(0), TDF_INVALID_VALUE),
                               "Flag_HospitalDischarge", 1),
              raised |-> FALSE]
        ELSE IF eventClass = "IMed"
        THEN ProcessMedications([data |-> data, raised |-> FALSE], names,
                                Split(eventValue, ","), 1)
        ELSE [data |-> data, raised |-> FALSE]

\* ProcessOutcomesNodeForwardImpl on an outcomes node of one name=value.
ProcessOutcomesNodeForwardImpl(data, names, listStr) ==
    LET nameValueParts == Split(listStr, "=")
    IN  IF listStr = <<>> \/ Len(nameValueParts) <= 1 THEN data
        ELSE IF /\ nameValueParts[1] = <<"DiedThisAdmission">>
                /\ "DiedThisAdmission" \in names
                /\ nameValueParts[2] \in {<<"T">>, <<"t">>}
        THEN DictSet(data, "DiedThisAdmission", 1)
        ELSE data

FileIdle ==
    /\ outputFile = <<>>
    /\ writerLog = <<>>
    /\ fileIndex = 0
    /\ prevDateDays = TDF_INVALID_VALUE

\* StartTimelineNode has been called on the writer; the reader that will
\* read the file is opened for the variables of allValueVarNameList.
FileStart ==
    /\ FileIdle
    /\ CompiledTimeline = <<>>
    /\ compilePc = "writing"
    /\ compileIndex = 0
    /\ allValueVarNameList \in CompileVarNameLists
    /\ fCarryForwardPreviousDataValues \in BOOLEAN
    /\ latestTimeLineEntryTimeDays = TDF_INVALID_VALUE
    /\ FutureBaselineCr = TDF_INVALID_VALUE
    /\ NextFutureDischargeDate = TDF_INVALID_VALUE
    /\ EventualDeathDate = TDF_INVALID_VALUE
    /\ StartDates = NoStartDates

\* TDFFileWriter.WriteDataNode
WriteDataNode ==
    /\ compilePc = "writing"
    /\ Len(outputFile) < MaxFileNodes
    /\ \E request \in WellFormedRequests \cup MalformedRequests :
         /\ outputFile' = Append(outputFile,
                DataNode("L", request.timeStampStr, request.valueStr))
         /\ writerLog' = Append(writerLog, request)
    /\ UNCHANGED <<fileIndex, prevDateDays, CompiledTimeline, compileVars, notFileVars>>

\* TDFFileWriter.FinishTimelineNode; the reader then compiles the timeline.
FinishTimelineNode ==
    /\ compilePc = "writing"
    /\ compilePc' = "reading"
    /\ fileIndex' = 1
    /\ UNCHANGED <<outputFile, writerLog, prevDateDays, CompiledTimeline,
                   compileIndex, allValueVarNameList,
                   fCarryForwardPreviousDataValues, latestTimeLineEntryTimeDays,
                   FutureBaselineCr, NextFutureDischargeDate,
                   EventualDeathDate, StartDates, notFileVars>>

\* One turn of CompileTimelineImpl's node loop on the node at fileIndex: a
\* time code whose int() raises ends the compile with the exception; a
\* negative time code and an outcomes node take the day of the node before;
\* an exception out of the node's processing ends the compile too.
CompileFileNode ==
    /\ compilePc = "reading"
    /\ fileIndex <= Len(outputFile)
    /\ LET node == outputFile[fileIndex]
           hasTimeStamp == node.T # <<>>
       IN  IF hasTimeStamp /\ TimeWordsRaise(node.T)
           THEN /\ compilePc' = "raised"
                /\ UNCHANGED <<CompiledTimeline, latestTimeLineEntryTimeDays,
                               prevDateDays, fileIndex>>
           ELSE \E labDateDays \in
                    {IF hasTimeStamp /\ TDF_ConvertTimeStampToInt(node.T) >= 0
                        /\ node.nodeType # "oc"
                     THEN TDF_ParseTimeStamp(node.T).days ELSE prevDateDays} :
                  LET n == Len(CompiledTimeline)
                      reuseLatestData ==
                          /\ n > 0
                          /\ \/ latestTimeLineEntryTimeDays = labDateDays
                             \/ node.nodeType = "oc" /\ latestTimeLineEntryTimeDays >= 0
                      previous ==
                          IF fCarryForwardPreviousDataValues /\ n > 0
                          THEN CompiledTimeline[n].data
                          ELSE InitialDataList(allValueVarNameList)
                      timeline ==
                          IF reuseLatestData THEN CompiledTimeline
                          ELSE Append(CompiledTimeline,
                                   [TimeDays |-> labDateDays,
                                    data |-> NewDataList(previous, allValueVarNameList),
                                    eventNodeList |-> <<>>])
                      last == Len(timeline)
                  IN  \E result \in
                          {IF node.nodeType = "oc"
                           THEN [data |-> ProcessOutcomesNodeForwardImpl(
                                              timeline[last].data, allValueVarNameList,
                                              node.text),
                                 raised |-> FALSE]
                           ELSE IF node.nodeType = "e"
                           THEN ProcessEventNodeForwardImpl(timeline[last].data,
                                    allValueVarNameList, node.C, node.V, labDateDays)
                           ELSE [data |-> IF node.C \in {"L", "V"}
                                          THEN ProcessDataNodeText(timeline[last].data,
                                                   allValueVarNameList,
                                                   Split(node.text, ","), 1)
                                          ELSE timeline[last].data,
                                 raised |-> FALSE]} :
                        /\ CompiledTimeline' =
                               [timeline EXCEPT
                                   ![last].data = result.data,
                                   ![last].eventNodeList =
                                       IF node.nodeType = "e" THEN Append(@, node) ELSE @]
                        /\ latestTimeLineEntryTimeDays' =
                               IF reuseLatestData
                               THEN latestTimeLineEntryTimeDays ELSE labDateDays
                        /\ prevDateDays' = labDateDays
                        /\ fileIndex' = IF result.raised THEN fileIndex ELSE fileIndex + 1
                        /\ compilePc' = IF result.raised THEN "raised" ELSE "reading"
    /\ UNCHANGED <<outputFile, writerLog, compileIndex, allValueVarNameList,
                   fCarryForwardPreviousDataValues, FutureBaselineCr,
                   NextFutureDischargeDate, EventualDeathDate, StartDates,
                   notFileVars>>

\* The node loop ends: LastTimeLineIndex is set and the sweep starts.
FinishFileForwardPass ==
    /\ compilePc = "reading"
    /\ fileIndex > Len(outputFile)
    /\ compilePc' = IF Len(CompiledTimeline) = 0 THEN "done" ELSE "sweep"
    /\ compileIndex' = 0
    /\ UNCHANGED <<CompiledTimeline, allValueVarNameList,
                   fCarryForwardPreviousDataValues, latestTimeLineEntryTimeDays,
                   FutureBaselineCr, NextFutureDischargeDate,
                   EventualDeathDate, StartDates, fileVars, notFileVars>>

NextFile ==
    \/ WriteDataNode
    \/ FinishTimelineNode
    \/ CompileFileNode
    \/ FinishFileForwardPass
    \/ RecordTimeMilestonesOnForwardPass
    \/ ReversePassStep

(***************************************************************************)
(* FILTER PREDICATES (TDFFileReader.CheckIfCurrentTimeMeetsCriteria)       *)
(***************************************************************************)

\* Bounds of the property lists and snapshots explored.
MaxProperties == 2

TDF_DATA_TYPE_INT == 0
TDF_DATA_TYPE_FLOAT == 1
TDF_DATA_TYPE_BOOL == 2
TDF_DATA_TYPE_FUTURE_EVENT_CLASS == 3

\* labInfo['dataType'] of the variables the predicates name.
LabValueDataType ==
    [Cr                    |-> TDF_DATA_TYPE_FLOAT,
     MELD                  |-> TDF_DATA_TYPE_INT,
     InAKI                 |-> TDF_DATA_TYPE_BOOL,
     Future_Category_Death |-> TDF_DATA_TYPE_FUTURE_EVENT_CLASS]

CriteriaNames == DOMAIN LabValueDataType
CriteriaRelations == {".EQ.", ".NEQ.", ".LT.", ".LTE.", ".GT.", ".GTE."}

\* Values are in tenths: 0 is 0.0 and 10 is 1.0.  float(x) keeps the value,
\* int(x) drops the fraction, toward zero.
CriteriaValues == {0, 10}
PyInt(tenths) == IF tenths >= 0 THEN tenths \div 10 ELSE -((-tenths) \div 10)

\* One predicate: propertyRelationList[propNum], propertyNameList[propNum]
\* and float(propertyValueList[propNum]).
Property(relationName, valueName, targetVal) ==
    [relationName |-> relationName, valueName |-> valueName, targetVal |-> targetVal]

\* The relation branches of the loop body: FALSE where the body returns
\* False, TRUE where it falls through to the next predicate.
RelationFallsThrough(relationName, dataTypeName, actualVal, targetVal) ==
    LET isFloat == dataTypeName = TDF_DATA_TYPE_FLOAT
        isInt == dataTypeName \in {TDF_DATA_TYPE_INT, TDF_DATA_TYPE_FUTURE_EVENT_CLASS}
        isBool == dataTypeName = TDF_DATA_TYPE_BOOL
        a == PyInt(actualVal)
        t == PyInt(targetVal)
    IN  CASE relationName = ".EQ." ->
                 IF isFloat /\ actualVal # targetVal THEN FALSE
                 ELSE IF isInt /\ a # t THEN FALSE
                 ELSE IF isBool /\ a # t THEN FALSE
                 ELSE TRUE
          [] relationName = ".NEQ." ->
                 IF isFloat /\ actualVal = targetVal THEN FALSE
                 ELSE IF isInt /\ a = t THEN FALSE
                 ELSE TRUE
          [] relationName = ".LT." ->
                 IF isFloat /\ actualVal >= targetVal THEN FALSE
                 ELSE IF isInt /\ a >= t THEN FALSE
                 ELSE TRUE
          [] relationName = ".LTE." ->
                 IF isFloat /\ actualVal > targetVal THEN FALSE
                 ELSE IF isInt /\ a > t THEN FALSE
                 ELSE TRUE
          [] relationName = ".GT." ->
                 IF isFloat /\ actualVal <= targetVal THEN FALSE
                 ELSE IF isInt /\ a <= t THEN FALSE
                 ELSE TRUE
          [] relationName = ".GTE." ->
                 IF isFloat /\ actualVal < targetVal THEN FALSE
                 ELSE IF isInt /\ a < t THEN FALSE
                 ELSE TRUE
          [] OTHER -> FALSE

\* The loop body with a variable that is absent or invalid passed over
\* instead of failing the TimePoint.
PropertyFallsThroughWhenPresent(prop, latestValues) ==
    IF ~latestValues[prop.valueName].has THEN TRUE
    ELSE IF latestValues[prop.valueName].v = TDF_INVALID_VALUE
            \/ latestValues[prop.valueName].v <= TDF_SMALLEST_VALID_VALUE
    THEN TRUE
    ELSE IF prop.valueName \notin DOMAIN LabValueDataType THEN FALSE
    ELSE RelationFallsThrough(prop.relationName, LabValueDataType[prop.valueName],
                              latestValues[prop.valueName].v, prop.targetVal)

\* The loop body for one predicate: FALSE where it returns False.
PropertyFallsThrough(prop, latestValues) ==
    IF ~latestValues[prop.valueName].has THEN FALSE
    ELSE IF latestValues[prop.valueName].v = TDF_INVALID_VALUE
            \/ latestValues[prop.valueName].v <= TDF_SMALLEST_VALID_VALUE
    THEN FALSE
    ELSE IF prop.valueName \notin DOMAIN LabValueDataType THEN FALSE
    ELSE RelationFallsThrough(prop.relationName, LabValueDataType[prop.valueName],
                              latestValues[prop.valueName].v, prop.targetVal)

\* TDFFileReader.CheckIfCurrentTimeMeetsCriteria: the loop over the
\* predicates from propNum on, and the return after it.
RECURSIVE CriteriaLoop(_, _, _)
CriteriaLoop(props, latestValues, propNum) ==
    IF propNum > Len(props) THEN TRUE
    ELSE IF ~PropertyFallsThrough(props[propNum], latestValues) THEN FALSE
    ELSE CriteriaLoop(props, latestValues, propNum + 1)

CheckIfCurrentTimeMeetsCriteriaImpl(props, latestValues) ==
    CriteriaLoop(props, latestValues, 1)

\* The predicates explored in the first two positions of a list: every
\* relation on every variable against every target value.
CriteriaProperties ==
    {Property(r, v, t) : r \in CriteriaRelations, v \in CriteriaNames,
                         t \in CriteriaValues}

\* The predicates explored in the positions after the second: one test of
\* equality and one of order on every variable.
CriteriaTailProperties ==
    {Property(r, v, 10) : r \in {".EQ.", ".GTE."}, v \in CriteriaNames}

\* The property lists explored: up to MaxProperties predicates.
CriteriaPropertyLists ==
    UNION {{props \in [1..n -> CriteriaProperties \cup CriteriaTailProperties] :
                \A i \in 1..n : i > 2 => props[i] \in CriteriaTailProperties} :
               n \in 1..MaxProperties}

\* The snapshots explored for a property list: each variable it names is
\* absent, invalid or holds a value; the others are absent.
SnapshotsFor(props) ==
    {d \in [CriteriaNames -> {Absent, Present(TDF_INVALID_VALUE)}
                                 \cup {Present(v) : v \in CriteriaValues}] :
        \A n \in CriteriaNames :
            (\A i \in 1..Len(props) : props[i].valueName # n) => d[n] = Absent}

NoVerdict == [called |-> FALSE, result |-> FALSE]

CriteriaIdle ==
    /\ criteriaProps = <<>>
    /\ criteriaEntry = [n \in CriteriaNames |-> Absent]
    /\ criteriaOut = NoVerdict

CriteriaStart ==
    /\ criteriaProps \in CriteriaPropertyLists
    /\ criteriaEntry \in SnapshotsFor(criteriaProps)
    /\ criteriaOut = NoVerdict

\* The caller asks whether the TimePoint meets the criteria.
CheckIfCurrentTimeMeetsCriteria ==
    /\ ~criteriaOut.called
    /\ criteriaOut' =
           [called |-> TRUE,
            result |-> CheckIfCurrentTimeMeetsCriteriaImpl(criteriaProps, criteriaEntry)]
    /\ UNCHANGED <<CompiledTimeline, criteriaProps, criteriaEntry, dataVars,
                   notExtractVars>>

NextCriteria == CheckIfCurrentTimeMeetsCriteria

(***************************************************************************)
(* ALIGNED EXTRACTION (TDFFileReader.GetDataForCurrentTimeline)            *)
(***************************************************************************)

\* The subjects whose timelines are extracted one after the other.
MaxSubjects == 2

\* 'MaxDaysWithZero' of VancDose.
MaxDaysWithZero == 3

\* The variables of the snapshots; VancDose is a drug.
ExtractNames == {"Cr", "VancDose"}
DrugNames == {"VancDose"}

\* One entry of the lists ParseVariableList leaves: the variable, its
\* offsets and range option, and its function object (NoFunction is None).
Reference(valueName, startOffsetRange, stopOffsetRange, rangeOption, functionObject) ==
    [valueName |-> valueName, startOffsetRange |-> startOffsetRange,
     stopOffsetRange |-> stopOffsetRange, rangeOption |-> rangeOption,
     functionObject |-> functionObject]
SameDay(valueName) == Reference(valueName, 0, 0, VARIABLE_RANGE_SIMPLE, NoFunction)
WithFunction(valueName, functionObject) ==
    Reference(valueName, 0, 0, VARIABLE_RANGE_SIMPLE, functionObject)

\* The input lists explored: "Cr", "Cr;VancDose", "VancDose;Cr.rate3",
\* "Cr.rate3;VancDose", "Cr;DaysSincePrev", "DaysSincePrev;Cr", "Cr[-1]".
ExtractInputLists ==
    {<<SameDay("Cr")>>,
     <<SameDay("Cr"), SameDay("VancDose")>>,
     <<SameDay("VancDose"), WithFunction("Cr", FuncReset("CRateValue", 3, TRUE))>>,
     <<WithFunction("Cr", FuncReset("CRateValue", 3, TRUE)), SameDay("VancDose")>>,
     <<SameDay("Cr"), SameDay("DaysSincePrev")>>,
     <<SameDay("DaysSincePrev"), SameDay("Cr")>>,
     <<Reference("Cr", -1, -1, VARIABLE_RANGE_SIMPLE, NoFunction)>>}

\* The reader after ParseVariableList(inputs, "Cr", ...).  Indexes of the
\* inputs are 1-based here, and 0 stands for the source's -1 (no such
\* input).  The result is Cr on the same day.
ExtractReader(refs) ==
    LET days == {i \in 1..Len(refs) : refs[i].valueName = "DaysSincePrev"}
        drugs == {i \in 1..Len(refs) : refs[i].valueName \in DrugNames}
    IN  [allValueVarNameList |-> [i \in 1..Len(refs) |-> refs[i].valueName],
         AllValuesOffsetStartRange |-> [i \in 1..Len(refs) |-> refs[i].startOffsetRange],
         AllValuesOffsetStopRange |-> [i \in 1..Len(refs) |-> refs[i].stopOffsetRange],
         AllValuesOffsetRangeOption |-> [i \in 1..Len(refs) |-> refs[i].rangeOption],
         numInputValues |-> Len(refs),
         DaysSincePrevResultIndex |->
             IF days = {} THEN 0 ELSE CHOOSE i \in days : \A j \in days : j <= i,
         varIndexThatMustBeNonZero |->
             IF drugs = {} THEN 0 ELSE CHOOSE i \in drugs : \A j \in drugs : i <= j,
         maxZeroDays |-> IF drugs = {} THEN -1 ELSE MaxDaysWithZero,
         resultValueName |-> "Cr",
         resultValueOffsetStartRange |-> 0,
         resultValueOffsetStopRange |-> 0,
         resultValueOffsetRangeOption |-> VARIABLE_RANGE_SIMPLE]

\* The arguments of a call: the filter, fNeedTrueResultForEveryInput, and
\* whether numMissingInstances is a list of counters (or None).
ExtractArguments ==
    [props : {<<>>, <<Property(".GTE.", "Cr", 20)>>},
     fNeedTrueResultForEveryInput : BOOLEAN,
     fCountMissing : BOOLEAN]

\* The compiled timelines explored: no TimePoint, or TimePoints on days
\* 0; 0 and 1; 0 and 5, each with Cr and VancDose absent or present.
ExtractSnapshots ==
    [Cr : {Absent, Present(10), Present(20)},
     VancDose : {Absent, Present(0), Present(10)}]
ExtractTimelines ==
    {<<>>} \cup UNION {TimelinesOn(days, ExtractSnapshots) : days \in {<<0>>, <<0, 1>>, <<0, 5>>}}

\* The timeline as GetNamedValueFromTimeline sees it for one variable.
Project(tl, valueName) ==
    [i \in 1..Len(tl) |-> TimePoint(tl[i].TimeDays, tl[i].data[valueName])]

\* GetBoundsForDataFetch for a result that predicts no future value
\* ('FuturePredictedValue' of Cr is ""): the whole timeline.
GetBoundsForDataFetch(tl) ==
    [firstTimelineIndex |-> 0, lastTimelineIndex |-> LastIndex(tl)]

\* GetNamedValueFromTimeline for the result reference: its offsets are
\* (0, 0) and its function object is None, so the call returns from the
\* same-day branch, whatever the range option and matchingRangeDay.
GetResult(tl, reader, timeLineIndex, matchingRangeDay) ==
    LET latestValues == EntryAt(tl, timeLineIndex).data[reader.resultValueName]
    IN  IF ~latestValues.has \/ latestValues.v < TDF_SMALLEST_VALID_VALUE
        THEN EarlyReturn(FALSE, RatInvalid, -1, {timeLineIndex})
        ELSE EarlyReturn(TRUE, RatOfInt(latestValues.v), DayAt(tl, timeLineIndex),
                         {timeLineIndex})

\* An input that was not found, with the row kept all the same: the
\* TimePoint is not marked incomplete and the loop goes on.
MissingInputKept(st, fCountMissing, valueIndex) ==
    [st EXCEPT !.result = RatInvalid]

\* The branch taken for an input that was not found: the TimePoint is
\* incomplete, and the loop counts the miss and goes on, or breaks.
MissingInput(st, fCountMissing, valueIndex) ==
    IF fCountMissing
    THEN [st EXCEPT !.foundAllInputs = FALSE,
                    !.numMissingInstances[valueIndex] = @ + 1,
                    !.result = RatInvalid]
    ELSE [st EXCEPT !.foundAllInputs = FALSE, !.broke = TRUE]

\* The check of a drug that is 0: not found when it was never non-zero or
\* has been 0 for more than maxZeroDays.
ZeroRun(st, reader, valueIndex, currentDayNum) ==
    IF st.foundIt /\ reader.varIndexThatMustBeNonZero = valueIndex
       /\ reader.maxZeroDays > 0
    THEN IF st.result.n = 0
         THEN IF st.lastNonZeroDayIndex < 0
                 \/ currentDayNum - st.lastNonZeroDayIndex > reader.maxZeroDays
              THEN [st EXCEPT !.foundIt = FALSE]
              ELSE st
         ELSE [st EXCEPT !.lastNonZeroDayIndex = currentDayNum]
    ELSE st

\* The loop over the inputs at one TimePoint, from valueIndex on.  foundIt
\* is unbound until a reference has been looked up (foundItBound): the
\* DaysSincePrev branch sets fFoundIt and leaves foundIt as it was, and
\* reading it unbound raises.  resolved records what each lookup reported.
\* looked is the state after the lookup, checked after the check of a drug
\* that is 0, written after the write into the row.
RECURSIVE InputLoop(_, _, _, _, _, _)
InputLoop(tl, reader, fCountMissing, timeLineIndex, state, valueIndex) ==
    Only({
    IF valueIndex > reader.numInputValues \/ st.raised \/ st.broke THEN st
    ELSE Only({
        IF looked.raised THEN looked
        ELSE InputLoop(tl, reader, fCountMissing, timeLineIndex,
                 Only({IF written.broke THEN written
                       ELSE [written EXCEPT
                                !.inputArray[st.numReturnedDataSets + 1][valueIndex] =
                                    written.result] :
                     written \in {IF checked.foundIt THEN checked
                                  ELSE MissingInput(checked, fCountMissing, valueIndex) :
                     checked \in {ZeroRun(looked, reader, valueIndex,
                                          DayAt(tl, timeLineIndex))}}}),
                 valueIndex + 1) :
        looked \in {
            IF valueIndex = reader.DaysSincePrevResultIndex
            THEN IF ~st.foundItBound THEN [st EXCEPT !.raised = TRUE]
                 ELSE [st EXCEPT !.matchingRangeDay = DayAt(tl, timeLineIndex),
                                 !.result = IF st.prevReturnedDayNum < 0
                                            THEN RatOfInt(30)
                                            ELSE RatOfInt(DayAt(tl, timeLineIndex)
                                                          - st.prevReturnedDayNum),
                                 !.resolved = Append(@, TRUE)]
            ELSE Only({
                IF r.ret.raised
                THEN [st EXCEPT !.raised = TRUE, !.funcs[valueIndex] = r.func]
                ELSE [st EXCEPT !.foundIt = r.ret.fFoundIt,
                                !.foundItBound = TRUE,
                                !.result = r.ret.result,
                                !.matchingRangeDay = r.ret.matchingRangeDay,
                                !.funcs[valueIndex] = r.func,
                                !.funcOuts = IF st.funcs[valueIndex] = NoFunction THEN @
                                             ELSE Append(@, r.funcOut),
                                !.resolved = Append(@, r.ret.fFoundIt)] :
                r \in {GetNamedValueFromTimelineImpl(
                           Project(tl, reader.allValueVarNameList[valueIndex]),
                           reader.AllValuesOffsetStartRange[valueIndex],
                           reader.AllValuesOffsetStopRange[valueIndex],
                           reader.AllValuesOffsetRangeOption[valueIndex],
                           st.funcs[valueIndex], timeLineIndex, st.matchingRangeDay)}})}}) :
    st \in {state}})

\* Whether the row being assembled differs from the row returned before it.
FoundUniqueInputVector(st, result) ==
    \/ \E k \in 1..Len(st.inputArray[st.numReturnedDataSets + 1]) :
           ~RatEquals(st.inputArray[st.numReturnedDataSets + 1][k],
                      st.inputArray[st.numReturnedDataSets][k])
    \/ ~RatEquals(result, st.resultArray[st.numReturnedDataSets])

\* What is done at a TimePoint once the loop over its inputs has ended: r
\* is the lookup of the result, result what is stored for it.
FinishTimePoint(tl, reader, args, timeLineIndex, state) ==
    Only({
    IF st.raised \/ ~st.foundAllInputs THEN st
    ELSE Only({
        IF r.raised THEN [st EXCEPT !.raised = TRUE]
        ELSE IF r.fFoundIt \/ ~args.fNeedTrueResultForEveryInput
        THEN Only({
            IF args.fNeedTrueResultForEveryInput /\ st.numReturnedDataSets > 0
               /\ ~FoundUniqueInputVector(stored, result)
            THEN stored
            ELSE [stored EXCEPT !.numReturnedDataSets = @ + 1,
                                !.prevReturnedDayNum = DayAt(tl, timeLineIndex),
                                !.rowIndex = Append(@, timeLineIndex)] :
            result \in {IF r.fFoundIt THEN r.result ELSE RatInvalid},
            stored \in {[st EXCEPT
                !.resultArray[st.numReturnedDataSets + 1] =
                    IF r.fFoundIt THEN r.result ELSE RatInvalid,
                !.dayNumArray[st.numReturnedDataSets + 1] = DayAt(tl, timeLineIndex)]}})
        ELSE st :
        r \in {GetResult(tl, reader, timeLineIndex, st.matchingRangeDay)}}) :
    st \in {state}})

\* The loop over the TimePoints, from timeLineIndex on: first is the first
\* lookup of the result, looped the state after the loop over the inputs.
RECURSIVE TimelineLoop(_, _, _, _, _)
TimelineLoop(tl, reader, args, state, timeLineIndex) ==
    Only({
    IF timeLineIndex > GetBoundsForDataFetch(tl).lastTimelineIndex \/ st.raised
       \/ st.numReturnedDataSets >= Len(st.inputArray)
    THEN st
    ELSE TimelineLoop(tl, reader, args,
        (IF Len(args.props) > 0
            /\ ~CheckIfCurrentTimeMeetsCriteriaImpl(args.props,
                                                    EntryAt(tl, timeLineIndex).data)
         THEN [st EXCEPT !.visited = Append(@, [timeLineIndex |-> timeLineIndex,
                                               passed |-> FALSE, resolved |-> <<>>])]
         ELSE Only({[done EXCEPT !.visited = Append(@, [timeLineIndex |-> timeLineIndex,
                                                       passed |-> TRUE,
                                                       resolved |-> done.resolved])] :
                 done \in {FinishTimePoint(tl, reader, args, timeLineIndex, looped) :
                 looped \in {InputLoop(tl, reader, args.fCountMissing, timeLineIndex,
                     [st EXCEPT !.raised = first.raised,
                                !.result = first.result,
                                !.matchingRangeDay = -1,
                                !.foundAllInputs = TRUE,
                                !.broke = FALSE,
                                !.resolved = <<>>],
                     1) :
                 first \in {GetResult(tl, reader, timeLineIndex, -1)}}}})),
        timeLineIndex + 1) :
    st \in {state}})

\* What a call returns: raised, or numReturnedDataSets and the three
\* arrays (empty where the source returns None).  numMissingInstances are
\* the caller's counters after the call; rowIndex, visited and funcOuts
\* record which TimePoint each row was returned at, what happened at each
\* TimePoint, and what each ComputeNewValue call returned.
NoExtract == [called |-> FALSE]

\* TDFFileReader.GetDataForCurrentTimeline.  out is what the call returns,
\* funcs the function objects after it.
GetDataForCurrentTimelineImpl(tl, reader, args, functionObjectList) ==
    LET bounds == GetBoundsForDataFetch(tl)
        maxNumCompleteLabSets == (bounds.lastTimelineIndex - bounds.firstTimelineIndex) + 1
        zero == RatOfInt(0)
        start == [funcs |-> [i \in 1..Len(functionObjectList) |->
                                IF functionObjectList[i] = NoFunction THEN NoFunction
                                ELSE Reset(functionObjectList[i])],
                  inputArray |-> [i \in 1..maxNumCompleteLabSets |->
                                     [k \in 1..reader.numInputValues |-> zero]],
                  resultArray |-> [i \in 1..maxNumCompleteLabSets |-> zero],
                  dayNumArray |-> [i \in 1..maxNumCompleteLabSets |-> 0],
                  numMissingInstances |-> [k \in 1..reader.numInputValues |-> 0],
                  lastNonZeroDayIndex |-> -1,
                  numReturnedDataSets |-> 0,
                  prevReturnedDayNum |-> -1,
                  foundIt |-> FALSE,
                  foundItBound |-> FALSE,
                  result |-> RatInvalid,
                  matchingRangeDay |-> -1,
                  foundAllInputs |-> TRUE,
                  broke |-> FALSE,
                  raised |-> FALSE,
                  resolved |-> <<>>,
                  rowIndex |-> <<>>,
                  visited |-> <<>>,
                  funcOuts |-> <<>>]
        nothing == [called |-> TRUE, raised |-> FALSE, numReturnedDataSets |-> 0,
                    inputArray |-> <<>>, resultArray |-> <<>>, dayNumArray |-> <<>>,
                    numMissingInstances |-> start.numMissingInstances,
                    rowIndex |-> <<>>, visited |-> <<>>, funcOuts |-> <<>>]
    IN  IF bounds.firstTimelineIndex < 0 \/ maxNumCompleteLabSets <= 0
        THEN [out |-> nothing, funcs |-> functionObjectList]
        ELSE Only({[out |-> IF end.raised
                            THEN [nothing EXCEPT !.raised = TRUE,
                                      !.numMissingInstances = end.numMissingInstances,
                                      !.visited = end.visited,
                                      !.funcOuts = end.funcOuts]
                            ELSE [nothing EXCEPT
                                      !.numReturnedDataSets = end.numReturnedDataSets,
                                      !.inputArray = SubSeq(end.inputArray, 1,
                                                            end.numReturnedDataSets),
                                      !.resultArray = SubSeq(end.resultArray, 1,
                                                             end.numReturnedDataSets),
                                      !.dayNumArray = SubSeq(end.dayNumArray, 1,
                                                             end.numReturnedDataSets),
                                      !.numMissingInstances = end.numMissingInstances,
                                      !.rowIndex = end.rowIndex,
                                      !.visited = end.visited,
                                      !.funcOuts = end.funcOuts],
                    funcs |-> end.funcs] :
                end \in {TimelineLoop(tl, reader, args, start, bounds.firstTimelineIndex)}})

\* The function objects ParseVariableList creates for a list of inputs.
CreatedFunctionObjects(refs) == [i \in 1..Len(refs) |-> refs[i].functionObject]

DataIdle ==
    /\ extractSubject = 0
    /\ extractInputs = <<>>
    /\ extractArgs = [props |-> <<>>, fNeedTrueResultForEveryInput |-> FALSE,
                      fCountMissing |-> FALSE]
    /\ allValuesFunctionObjectList = <<>>
    /\ fedBefore = FALSE
    /\ extractOut = NoExtract

\* A reader opened for a list of inputs, with the first subject's timeline
\* compiled.
ExtractStart ==
    /\ extractSubject = 1
    /\ extractInputs \in ExtractInputLists
    /\ extractArgs \in ExtractArguments
    /\ allValuesFunctionObjectList = CreatedFunctionObjects(extractInputs)
    /\ CompiledTimeline \in ExtractTimelines
    /\ fedBefore = FALSE
    /\ extractOut = NoExtract

\* The caller extracts the arrays of the current subject.
GetDataForCurrentTimeline ==
    /\ extractSubject > 0
    /\ ~extractOut.called
    /\ LET r == GetDataForCurrentTimelineImpl(CompiledTimeline,
                    ExtractReader(extractInputs), extractArgs,
                    allValuesFunctionObjectList)
       IN  /\ extractOut' = r.out
           /\ allValuesFunctionObjectList' = r.funcs
    /\ fedBefore' = \E i \in 1..Len(allValuesFunctionObjectList) :
                        /\ allValuesFunctionObjectList[i] # NoFunction
                        /\ Len(allValuesFunctionObjectList[i].ValueQueue) > 0
    /\ UNCHANGED <<CompiledTimeline, extractSubject, extractInputs, extractArgs,
                   criteriaVars, notExtractVars>>

\* The reader moves to the next subject, whose timeline is compiled.
ExtractNextTimeline ==
    /\ extractOut.called
    /\ ~extractOut.raised
    /\ extractSubject < MaxSubjects
    /\ extractSubject' = extractSubject + 1
    /\ CompiledTimeline' \in ExtractTimelines
    /\ extractOut' = NoExtract
    /\ UNCHANGED <<extractInputs, extractArgs, allValuesFunctionObjectList, fedBefore,
                   criteriaVars, notExtractVars>>

NextExtract ==
    \/ GetDataForCurrentTimeline
    \/ ExtractNextTimeline

ExtractIdle == CriteriaIdle /\ DataIdle

(***************************************************************************)
(* STORED LAB VALUES (TDFFileReader.ProcessDataNodeForwardImpl)            *)
(***************************************************************************)

\* The values the data nodes of a file carry (tenths): below and on the
\* invalid threshold, below minVal, in range, above maxVal, ten times
\* maxVal, and the text "nan".
StoreValues == {NaN, -10010, -10000, 3, 20, 100, 600}
StoreDays == {3, 10}
StoreText(value) == IF value = NaN THEN <<"n", "a", "n">> ELSE FloatText(value)

\* <D C="L" T="03:00:00">Cr=2.0</D>, a lab or a vital.
StoreNodes ==
    {[nodeType |-> "d", C |-> classStr, T |-> TDF_MakeTimeStamp(days, 0, 0),
      V |-> <<>>, text |-> <<"Cr", "=">> \o StoreText(value)] :
        classStr \in {"L", "V"}, days \in StoreDays, value \in StoreValues}

\* A reader is opened on a file of one timeline and compiles it.
StoreStart ==
    /\ outputFile \in UNION {[1..n -> StoreNodes] : n \in 1..MaxFileNodes}
    /\ writerLog = <<>>
    /\ fileIndex = 1
    /\ prevDateDays = TDF_INVALID_VALUE
    /\ CompiledTimeline = <<>>
    /\ compilePc = "reading"
    /\ compileIndex = 0
    /\ allValueVarNameList \in CompileVarNameLists
    /\ fCarryForwardPreviousDataValues \in BOOLEAN
    /\ latestTimeLineEntryTimeDays = TDF_INVALID_VALUE
    /\ FutureBaselineCr = TDF_INVALID_VALUE
    /\ NextFutureDischargeDate = TDF_INVALID_VALUE
    /\ EventualDeathDate = TDF_INVALID_VALUE
    /\ StartDates = NoStartDates

NextStore ==
    \/ CompileFileNode
    \/ FinishFileForwardPass

(***************************************************************************)
(* EVENT NODES (ProcessEventNodeForwardImpl, ProcessEventNodeInReverseImpl)*)
(***************************************************************************)

\* Bounds of the timelines of event nodes.
MaxMedNodes == 2
MaxAdmitNodes == 3
MaxEventDay == 1

\* The variables the reader of these timelines is opened for.
EventVarNames ==
    {"Cr", "VancDose", "InHospital", "HospitalAdmitDate", "DiedThisAdmission",
     "EventualDeathDate", "Future_Days_Until_Discharge"}

\* <E C=eventType T=timeStampStr V=valueStr />, <OC>DiedThisAdmission=T</OC>
\* and <D C="L" T=timeStampStr>Cr=1.0</D>.
EventNode(eventType, days, valueStr) ==
    [nodeType |-> "e", C |-> eventType, T |-> TDF_MakeTimeStamp(days, 0, 0),
     V |-> valueStr, text |-> <<>>]
OutcomesNode(diedDuringAdmission) ==
    [nodeType |-> "oc", C |-> "", T |-> <<>>, V |-> <<>>,
     text |-> <<"DiedThisAdmission", "=", diedDuringAdmission>>]
LabNode(days) ==
    [nodeType |-> "d", C |-> "L", T |-> TDF_MakeTimeStamp(days, 0, 0), V |-> <<>>,
     text |-> <<"Cr", "=">> \o FloatText(10)]

\* The values of the IMed events: 1000 twice a day, 750 three times a day,
\* 2500 twice a day (more than half of maxVal), an oral order, a dose below
\* 100, and two orders in one event.
MedValues ==
    {<<"VancDose", ":", "1", "0", "0", "0", ":", "i", ":", "2">>,
     <<"VancDose", ":", "7", "5", "0", ":", "i", ":", "3">>,
     <<"VancDose", ":", "2", "5", "0", "0", ":", "i", ":", "2">>,
     <<"VancDose", ":", "1", "0", "0", "0", ":", "o", ":", "1">>,
     <<"VancDose", ":", "5", "0">>,
     <<"VancDose", ":", "1", "0", "0", "0", ":", "i", ":", "1", ",",
       "VancDose", ":", "6", "0", "0">>}

MedNodes(days) == {EventNode("IMed", days, v) : v \in MedValues} \cup {LabNode(days)}
AdmitNodes(days) ==
    {EventNode("Admit", days, <<>>), EventNode("Discharge", days, <<>>),
     OutcomesNode("T"), LabNode(days)}

\* The timelines of up to maxLen nodes whose days never decrease.
NonDecreasingDays(maxLen) ==
    {days \in UNION {[1..n -> 0..MaxEventDay] : n \in 1..maxLen} :
        \A i \in 1..(Len(days) - 1) : days[i] <= days[i + 1]}

\* A reader is opened on a file of one timeline of event nodes.
EventStart(files) ==
    /\ outputFile \in files
    /\ writerLog = <<>>
    /\ fileIndex = 1
    /\ prevDateDays = TDF_INVALID_VALUE
    /\ CompiledTimeline = <<>>
    /\ compilePc = "reading"
    /\ compileIndex = 0
    /\ allValueVarNameList = EventVarNames
    /\ fCarryForwardPreviousDataValues \in BOOLEAN
    /\ latestTimeLineEntryTimeDays = TDF_INVALID_VALUE
    /\ FutureBaselineCr = TDF_INVALID_VALUE
    /\ NextFutureDischargeDate = TDF_INVALID_VALUE
    /\ EventualDeathDate = TDF_INVALID_VALUE
    /\ StartDates = NoStartDates

MedStart ==
    \E days \in NonDecreasingDays(MaxMedNodes) :
        EventStart({f \in [1..Len(days) -> UNION {MedNodes(d) : d \in 0..MaxEventDay}] :
                        \A i \in 1..Len(days) : f[i] \in MedNodes(days[i])})

AdmitStart ==
    \E days \in NonDecreasingDays(MaxAdmitNodes) :
        EventStart({f \in [1..Len(days) -> UNION {AdmitNodes(d) : d \in 0..MaxEventDay}] :
                        \A i \in 1..Len(days) : f[i] \in AdmitNodes(days[i])})

NextEvent ==
    \/ CompileFileNode
    \/ FinishFileForwardPass
    \/ RecordTimeMilestonesOnForwardPass
    \/ ReversePassStep

(***************************************************************************)
(* SPECIFICATIONS                                                          *)
(***************************************************************************)

InitPart ==
    /\ OutcomeIdle
    /\ FuncIdle /\ QueryIdle /\ CompileIdle /\ ParseIdle /\ FileIdle
    /\ ExtractIdle
    /\ fileLines \in Files
    /\ partitionList = <<>>
    /\ seqPos = 0 /\ seqPc = "first" /\ seqFound = <<>>
    /\ partIndex = 0 /\ partPos = 0 /\ partPc = "create" /\ partFound = <<>>
    /\ knownPc = "find" /\ knownIndex = 1
    /\ resultTimelinePositionLists = <<>> /\ knownFound = <<>>

NextPart ==
    \/ GotoFirstTimeline
    \/ GotoNextTimeline
    \/ CreateFilePartitionList
    \/ GotoFirstTimelineInPartition
    \/ GotoNextTimelineInPartition
    \/ FindAllTimelinesInPartition
    \/ ReadTimelineAtKnownPosition

SpecPart == InitPart /\ [][NextPart]_vars

InitFunc ==
    /\ OutcomeIdle
    /\ FuncStart /\ PartIdle /\ QueryIdle /\ CompileIdle /\ ParseIdle /\ FileIdle
    /\ ExtractIdle
SpecFunc == InitFunc /\ [][NextFunc]_vars

InitQuery ==
    /\ OutcomeIdle
    /\ QueryStart /\ PartIdle /\ FuncIdle /\ CompileIdle /\ ParseIdle /\ FileIdle
    /\ ExtractIdle
SpecQuery == InitQuery /\ [][NextQuery]_vars

InitOutcome ==
    /\ OutcomeStart /\ PartIdle /\ FuncIdle /\ QueryIdle /\ CompileIdle /\ ParseIdle
    /\ FileIdle /\ ExtractIdle
SpecOutcome == InitOutcome /\ [][NextOutcome]_vars

InitExpand ==
    /\ OutcomeIdle
    /\ ExpandStart /\ PartIdle /\ FuncIdle /\ QueryIdle /\ CompileIdle /\ FileIdle
    /\ ExtractIdle
SpecExpand ==
    InitExpand /\ [][NextExpand]_vars /\ WF_<<parsePc, expandIndex>>(ExpandProgress)

InitLookup ==
    /\ OutcomeIdle
    /\ LookupStart /\ PartIdle /\ FuncIdle /\ CompileIdle /\ ParseIdle /\ FileIdle
    /\ ExtractIdle
SpecLookup == InitLookup /\ [][NextQuery]_vars

InitCompile ==
    /\ OutcomeIdle
    /\ CompileStart /\ PartIdle /\ FuncIdle /\ QueryIdleFields /\ ParseIdle /\ FileIdle
    /\ ExtractIdle
SpecCompile == InitCompile /\ [][NextCompile]_vars

InitSweep ==
    /\ OutcomeIdle
    /\ SweepStart /\ PartIdle /\ FuncIdle /\ QueryIdleFields /\ ParseIdle /\ FileIdle
    /\ ExtractIdle
SpecSweep == InitSweep /\ [][NextSweep]_vars

InitParse ==
    /\ OutcomeIdle
    /\ ParseStart /\ PartIdle /\ FuncIdle /\ QueryIdle /\ CompileIdle /\ FileIdle
    /\ ExtractIdle
SpecParse == InitParse /\ [][NextParse]_vars

InitFile ==
    /\ OutcomeIdle
    /\ FileStart /\ PartIdle /\ FuncIdle /\ QueryIdleFields /\ ParseIdle
    /\ ExtractIdle
SpecFile == InitFile /\ [][NextFile]_vars

InitCriteria ==
    /\ OutcomeIdle
    /\ CriteriaStart /\ DataIdle /\ PartIdle /\ FuncIdle /\ QueryIdle /\ CompileIdle /\ ParseIdle
    /\ FileIdle
SpecCriteria == InitCriteria /\ [][NextCriteria]_vars

InitExtract ==
    /\ OutcomeIdle
    /\ ExtractStart /\ CriteriaIdle /\ PartIdle /\ FuncIdle /\ QueryIdleFields
    /\ CompileIdle /\ ParseIdle /\ FileIdle
SpecExtract == InitExtract /\ [][NextExtract]_vars

InitStore ==
    /\ OutcomeIdle
    /\ StoreStart /\ PartIdle /\ FuncIdle /\ QueryIdleFields /\ ParseIdle
    /\ ExtractIdle
SpecStore == InitStore /\ [][NextStore]_vars

InitMed ==
    /\ OutcomeIdle
    /\ MedStart /\ PartIdle /\ FuncIdle /\ QueryIdleFields /\ ParseIdle
    /\ ExtractIdle
SpecMed == InitMed /\ [][NextEvent]_vars

InitAdmit ==
    /\ OutcomeIdle
    /\ AdmitStart /\ PartIdle /\ FuncIdle /\ QueryIdleFields /\ ParseIdle
    /\ ExtractIdle
SpecAdmit == InitAdmit /\ [][NextEvent]_vars

\* The whole engine: any one area at work.
Init ==
    InitPart \/ InitFunc \/ InitQuery \/ InitCompile \/ InitSweep \/ InitParse
        \/ InitFile \/ InitCriteria \/ InitExtract \/ InitStore \/ InitMed
        \/ InitAdmit \/ InitLookup \/ InitExpand \/ InitOutcome
Next ==
    NextPart \/ NextFunc \/ NextQuery \/ NextCompile \/ NextSweep \/ NextParse
        \/ NextFile \/ NextCriteria \/ NextExtract \/ NextStore \/ NextEvent
        \/ NextExpand \/ NextOutcome
Spec == Init /\ [][Next]_vars

(***************************************************************************)
(* CLAIMS                                                                  *)
(***************************************************************************)

\* The lines that open a timeline of the timeline list (the header's
\* <TLLocationIndex> line opens none), and the byte offset of an opening tag.
TimelineOpenLines(f) == {i \in 4..Len(f) : f[i].kind = "open"}
OpenTagOffset(f, i) == LineStart(f, i) + f[i].lead
BothScansDone == seqPc = "done" /\ partPc = "done"
OpenedBy(found) == [i \in 1..Len(found) |-> found[i].tl]

\* C1: once both scans have ended, the fragments the partition scans
\* returned, concatenated in partition order, are exactly the fragments the
\* unpartitioned scan returned, in the same order (a fragment being named by
\* the line that opens it).
C1_PartitionScanEqualsSequentialScan ==
    BothScansDone => OpenedBy(partFound) = OpenedBy(seqFound)

\* C8: a partition scan returns a timeline if and only if the byte offset of
\* its opening tag lies in [start, stop) of the partition: every fragment
\* returned for a partition was opened inside it, and once a partition has
\* been scanned every timeline opened inside it has been returned for it.
C8_PartitionReturnsOnlyItsOwn ==
    /\ \A k \in 1..Len(partFound) :
         LET p == partitionList[partFound[k].part]
         IN  /\ partFound[k].tl \in TimelineOpenLines(fileLines)
             /\ p.start <= OpenTagOffset(fileLines, partFound[k].tl)
             /\ OpenTagOffset(fileLines, partFound[k].tl) < p.stop
    /\ \A n \in 1..Len(partitionList) :
         (partPc = "done" \/ n < partIndex) =>
            \A i \in TimelineOpenLines(fileLines) :
               (/\ partitionList[n].start <= OpenTagOffset(fileLines, i)
                /\ OpenTagOffset(fileLines, i) < partitionList[n].stop)
               => \E k \in 1..Len(partFound) :
                     partFound[k].part = n /\ partFound[k].tl = i

\* C7: a call whose day is more than N days after every retained
\* observation leaves only the new observation in the queue and returns what
\* the same call returns on a freshly Reset instance.
C7_EvictAllEqualsFresh ==
    (funcLast.called /\ funcLast.hadHistory /\ funcLast.allOlder) =>
        /\ Len(funcObj.ValueQueue) = 1
        /\ funcLast.out =
             ComputeNewValue(Reset(funcObj), funcLast.value, funcLast.dayNum).out


\* ---- value query claims ----

QueryDone == queryOut # NoQuery
SameDayEntry == EntryAt(CompiledTimeline, queryOut.timeLineIndex).data
SameDayValid == SameDayEntry.has /\ SameDayEntry.v >= TDF_SMALLEST_VALID_VALUE

\* C2: when the reference names a function, the value returned at a TimePoint
\* is the output of the function's ComputeNewValue on the same-day snapshot
\* value and day, and the call reports not-found exactly when the same-day
\* value is absent or invalid or the function's output is invalid.
C2_FunctionReferenceReturnsFunctionOutput ==
    (QueryDone /\ queryOut.hasFunction) =>
        /\ ~queryOut.ret.raised
        /\ queryOut.ret.fFoundIt <=>
               (SameDayValid /\ ~RatLessInt(queryOut.funcOut, TDF_SMALLEST_VALID_VALUE))
        /\ queryOut.ret.fFoundIt => queryOut.ret.result = queryOut.funcOut

\* C9: a reference with offsets (0,0) and no function returns exactly the
\* snapshot value and day of the current TimePoint when that value is present
\* and valid, returns not-found when it is absent or invalid, and in neither
\* case reads the snapshot of any other TimePoint.
C9_SameDayLookupReadsOnlyCurrentTimePoint ==
    (QueryDone /\ ~queryOut.hasFunction /\ queryOut.sameDayOffsets) =>
        /\ ~queryOut.ret.raised
        /\ queryOut.ret.reads = {queryOut.timeLineIndex}
        /\ queryOut.ret.fFoundIt <=> SameDayValid
        /\ SameDayValid =>
              /\ queryOut.ret.result = RatOfInt(SameDayEntry.v)
              /\ queryOut.ret.matchingRangeDay =
                     DayAt(CompiledTimeline, queryOut.timeLineIndex)
        /\ ~SameDayValid =>
              /\ queryOut.ret.result = RatInvalid
              /\ queryOut.ret.matchingRangeDay = -1

\* A same-day lookup at the second TimePoint that found its value while the
\* first TimePoint holds a different valid one.
C9_Witness_FoundAtSecondTimePoint ==
    /\ QueryDone /\ ~queryOut.hasFunction /\ queryOut.sameDayOffsets
    /\ queryOut.timeLineIndex = 1
    /\ queryOut.ret.fFoundIt /\ queryOut.ret.result = RatOfInt(6)
    /\ queryOut.ret.matchingRangeDay = DayAt(CompiledTimeline, 1)
    /\ EntryAt(CompiledTimeline, 0).data = Present(5)

\* C10: when the directional search reports found, the matched day lies
\* inside [referenceDay+start, referenceDay+stop], whichever end is first.
C10_DirectionalMatchInsideWindow ==
    (QueryDone /\ queryOut.ret.directional /\ queryOut.ret.fFoundIt) =>
        /\ queryOut.ret.matchingRangeDay >=
               Min(queryOut.ret.firstDayInRange, queryOut.ret.lastDayNumInRange)
        /\ queryOut.ret.matchingRangeDay <=
               Max(queryOut.ret.firstDayInRange, queryOut.ret.lastDayNumInRange)


\* ---- timeline compiler claims ----

CompileDone == compilePc = "done"
SnapshotAt(k) == CompiledTimeline[k].data
IsValidValue(v) == v > TDF_SMALLEST_VALID_VALUE
ValidCrFrom(k) ==
    {DictGet(SnapshotAt(i), "Cr") : i \in {j \in k..Len(CompiledTimeline) :
                                            IsValidValue(DictGet(SnapshotAt(j), "Cr"))}}

\* C3: after the reverse pass, a valid BaselineCr at TimePoint k is less than
\* or equal to every valid Cr recorded at TimePoints k through the last.
C3_BaselineCrAtMostLaterCr ==
    CompileDone =>
        \A k \in 1..Len(CompiledTimeline) :
            IsValidValue(DictGet(SnapshotAt(k), "BaselineCr")) =>
                \A cr \in ValidCrFrom(k) : DictGet(SnapshotAt(k), "BaselineCr") <= cr

\* A recorded baseline of 2.0 on a day with Cr 2.9, lowered by the reverse
\* pass to the Cr 1.0 of a later TimePoint.
C3_Witness_BaselineLowered ==
    /\ CompileDone
    /\ Len(CompiledTimeline) >= 2
    /\ DictGet(SnapshotAt(1), "Cr") = 29
    /\ DictGet(SnapshotAt(1), "BaselineCr") = 10
    /\ DictGet(SnapshotAt(2), "Cr") = 10
    /\ fCarryForwardPreviousDataValues

\* The subject of the acute-state scenario, compiled by a reader in its
\* default configuration: Cr 1.0 on day 100, 2.9 on day 103, 1.4 on day 110,
\* the last observation.
ScenarioDays == <<100, 103, 110>>
ScenarioCr == <<10, 29, 14>>
ScenarioCompiled ==
    /\ CompileDone
    /\ fCarryForwardPreviousDataValues
    /\ Len(CompiledTimeline) = Len(ScenarioDays)
    /\ \A k \in 1..Len(ScenarioDays) :
          /\ CompiledTimeline[k].TimeDays = ScenarioDays[k]
          /\ DictGet(SnapshotAt(k), "Cr") = ScenarioCr[k]

\* C4: for the scenario subject compiled with Cr, BaselineCr and InAKI, InAKI
\* is 1 at the day-103 TimePoint and 0 at the day-110 TimePoint and at every
\* later one.
C4_ScenarioInAKI ==
    (ScenarioCompiled /\ "InAKI" \in allValueVarNameList) =>
        /\ DictGet(SnapshotAt(2), "InAKI") = 1
        /\ \A k \in 3..Len(CompiledTimeline) : DictGet(SnapshotAt(k), "InAKI") = 0

\* C5: for the scenario subject compiled with Cr and BaselineCr, compilation
\* completes and BaselineCr at the day-100 TimePoint is 1.0.
C5_ScenarioBaselineCr ==
    ScenarioCompiled => DictGet(SnapshotAt(1), "BaselineCr") = 10


\* ---- stage-onset sweep claims ----

\* The start-date fields, the score each follows, and the scores of its
\* category or a worse one.
StartDateFields == DOMAIN NoStartDates
ScoreOf(field) ==
    IF field \in {"CKD5", "CKD4", "CKD3b", "CKD3a"} THEN "GFR" ELSE "MELD"
InCategory(field, score) ==
    CASE field = "CKD5" -> score < 15
      [] field = "CKD4" -> score < 30
      [] field = "CKD3b" -> score < 45
      [] field = "CKD3a" -> score < 60
      [] field = "MELD40" -> score >= 40
      [] field = "MELD30" -> score >= 30
      [] field = "MELD20" -> score >= 20
      [] field = "MELD10" -> score >= 10

\* The TimePoints swept so far, and those of them with a valid score.
SweptCount ==
    IF compilePc = "sweep" THEN compileIndex
    ELSE IF compilePc \in {"reverse", "done"} THEN Len(CompiledTimeline) ELSE 0
ScoredPoints(field) ==
    {i \in 1..SweptCount :
        /\ ScoreOf(field) \in DOMAIN SnapshotAt(i)
        /\ SnapshotAt(i)[ScoreOf(field)] >= TDF_SMALLEST_VALID_VALUE}
ScoreAt(field, i) == SnapshotAt(i)[ScoreOf(field)]
SetMax(S) == CHOOSE x \in S : \A y \in S : y <= x
SetMin(S) == CHOOSE x \in S : \A y \in S : x <= y

\* The TimePoint at which the score last entered the field's category: the
\* first of the unbroken run of in-category scores that ends at the latest
\* scored TimePoint.
EntryPoint(field) ==
    LET scored == ScoredPoints(field)
        latest == SetMax(scored)
    IN  SetMin({i \in scored :
                  \A j \in scored : (i <= j /\ j <= latest) => InCategory(field, ScoreAt(field, j))})

\* C6: through the sweep, the onset date of a category is the day the score
\* last entered it: set on first entry, invalid at a TimePoint where the
\* score is back in a better category, and after a re-entry the day of the
\* re-entry, later than every earlier onset day.
C6_OnsetClearedAndSetAgain ==
    (compilePc \in {"sweep", "reverse", "done"}) =>
        \A field \in StartDateFields :
            LET scored == ScoredPoints(field)
            IN  IF scored = {} THEN StartDates[field] = TDF_INVALID_VALUE
                ELSE IF ~InCategory(field, ScoreAt(field, SetMax(scored)))
                THEN StartDates[field] = TDF_INVALID_VALUE
                ELSE /\ StartDates[field] = CompiledTimeline[EntryPoint(field)].TimeDays
                     /\ \A i \in scored :
                           (i < EntryPoint(field) /\ InCategory(field, ScoreAt(field, i)))
                               => StartDates[field] > CompiledTimeline[i].TimeDays

\* ---- range search claims ----

\* The TimePoints inside the window of the last range search that hold a
\* present, valid value.
WindowLow == Min(queryOut.ret.firstDayInRange, queryOut.ret.lastDayNumInRange)
WindowHigh == Max(queryOut.ret.firstDayInRange, queryOut.ret.lastDayNumInRange)
WindowSearchForward == queryOut.ret.firstDayInRange <= queryOut.ret.lastDayNumInRange
InWindowValid ==
    {i \in 0..LastIndex(CompiledTimeline) :
        /\ DayAt(CompiledTimeline, i) >= WindowLow
        /\ DayAt(CompiledTimeline, i) <= WindowHigh
        /\ EntryAt(CompiledTimeline, i).data.has
        /\ EntryAt(CompiledTimeline, i).data.v >= TDF_SMALLEST_VALID_VALUE}
FirstInSearchDirection ==
    IF WindowSearchForward
    THEN CHOOSE i \in InWindowValid : \A j \in InWindowValid : i <= j
    ELSE CHOOSE i \in InWindowValid : \A j \in InWindowValid : i >= j

\* C11: when a TimePoint inside the window holds a present valid value, the
\* range search reports found and returns the value and day of the first
\* such TimePoint in the search direction: the earliest for a forward
\* search, the latest for a backward search.
C11_RangeSearchFindsFirstInDirection ==
    (QueryDone /\ ~queryOut.hasFunction /\ queryOut.ret.directional
              /\ InWindowValid # {}) =>
        /\ ~queryOut.ret.raised
        /\ queryOut.ret.fFoundIt
        /\ queryOut.ret.result =
               RatOfInt(EntryAt(CompiledTimeline, FirstInSearchDirection).data.v)
        /\ queryOut.ret.matchingRangeDay = DayAt(CompiledTimeline, FirstInSearchDirection)

\* ---- requested-variable list claims ----

\* A ParseVariableList call made on the constructed reader has returned.
ParseReturned == parseCalls > 0 /\ parsePc = "returned"
EntryCount == Len(readerLists.allValueVarNameList)

\* C12: after ParseVariableList has returned, no base variable name is in
\* two entries without a function, and two entries with the same name carry
\* distinct functions.
C12_NoDuplicateEntries ==
    ParseReturned =>
        \A i, j \in 1..EntryCount :
            (i # j /\ readerLists.allValueVarNameList[i] = readerLists.allValueVarNameList[j]) =>
                readerLists.allValuesFunctionNameList[i] # readerLists.allValuesFunctionNameList[j]


\* ParseVariableList has now returned twice in a row on the same arguments.
ParsedTwice ==
    /\ parseCalls >= 2
    /\ parsePc = "returned"
    /\ parsePrev.args = parseArgs

\* C13: the second of two ParseVariableList calls on the same input list,
\* result name and filter names leaves the expanded list the first call
\* left: the same names, offsets, range options, functions and function
\* objects, in the same order.
C13_SecondParseEqualsFirst ==
    ParsedTwice => readerLists = parsePrev.lists

\* Both calls pulled in dependencies and created a function object.
C13_Witness_ExpandedTwice ==
    /\ ParsedTwice
    /\ EntryCount > readerLists.numInputValues + 1
    /\ \E i \in 1..EntryCount : readerLists.allValuesFunctionObjectList[i] # NoFunction

\* The references of the last call: the input list, the result name if one
\* was given, and the filter names.
GivenReferences ==
    {Split(parseArgs.inputNameListStr, VARIABLE_LIST_SEPARATOR)[i] :
        i \in 1..Len(Split(parseArgs.inputNameListStr, VARIABLE_LIST_SEPARATOR))}
    \cup (IF parseArgs.resultValueName # <<>> THEN {parseArgs.resultValueName} ELSE {})
    \cup {parseArgs.requirePropertyNameList.names[i] :
        i \in 1..Len(parseArgs.requirePropertyNameList.names)}
HasUnknownFunction(ref) ==
    LET parsed == TDF_ParseOneVariableName(ref)
    IN  /\ ~parsed.raised
        /\ parsed.functionName # <<>>
        /\ CreateTimeValueFunction(parsed.functionName, parsed.valueName) = NoFunction

\* C18: a ParseVariableList call given a reference whose function the
\* factory does not know does not return: it is aborted.
C18_UnknownFunctionAborts ==
    (parseCalls > 0 /\ \E ref \in GivenReferences : HasUnknownFunction(ref)) =>
        parsePc # "returned"

\* The names of the dependency list of a table entry.
DependencyNames(labInfo) ==
    IF VariableDependencies[labInfo] = <<>> THEN {}
    ELSE {Split(VariableDependencies[labInfo], ";")[i] :
             i \in 1..Len(Split(VariableDependencies[labInfo], ";"))}

C15_CompiledDaysNonDecreasing ==
    \A k \in 1..(Len(CompiledTimeline) - 1) :
        CompiledTimeline[k].TimeDays <= CompiledTimeline[k + 1].TimeDays

\* C16: no two TimePoints of the compiled timeline have the same day: a node
\* on the day of a TimePoint already created is merged into it.
C16_OneTimePointPerDay ==
    \A j, k \in 1..Len(CompiledTimeline) :
        j # k => CompiledTimeline[j].TimeDays # CompiledTimeline[k].TimeDays


\* ---- rate function claims ----

\* The object the factory makes for rate30 has been fed exactly these
\* observations, the last of them by the last call.
Rate30Fed(queue) ==
    /\ funcLast.called
    /\ funcObj.cls = "CRateValue" /\ funcObj.MaxDaysInQueue = 30
    /\ funcObj.ValueQueue = queue
IsValidRate(r) == r # RatInvalid /\ ~RatLessInt(r, 0)

\* C17: rate30 fed 10 on day 0, 12 on day 10 and 20 on day 30 returns the
\* invalid value on the first call and a valid rate on the second and on
\* the third: 2 over 10 days, then 10 over 30 days.
C17_Rate30Scenario ==
    /\ Rate30Fed(<<QueueEntry(10, 0)>>) => funcLast.out = RatInvalid
    /\ Rate30Fed(<<QueueEntry(10, 0), QueueEntry(12, 10)>>) =>
          IsValidRate(funcLast.out) /\ funcLast.out = Rat(2, 10)
    /\ Rate30Fed(<<QueueEntry(10, 0), QueueEntry(12, 10), QueueEntry(20, 30)>>) =>
          IsValidRate(funcLast.out) /\ funcLast.out = Rat(10, 30)

\* The third observation of the scenario has been fed.
C17_Witness_ThirdCall ==
    Rate30Fed(<<QueueEntry(10, 0), QueueEntry(12, 10), QueueEntry(20, 30)>>)


\* ---- written file claims ----

\* The days the writer was given, a run of equal days counted once.
RECURSIVE WrittenDays(_)
WrittenDays(log) ==
    IF log = <<>> THEN <<>>
    ELSE LET n == Len(log)
             before == WrittenDays(SubSeq(log, 1, n - 1))
         IN  IF n > 1 /\ log[n - 1].days = log[n].days THEN before
             ELSE Append(before, log[n].days)

\* A value brought into the range of its variable.
ClampToRange(labName, value) ==
    Min(Max(value, g_LabValueInfo[labName].minVal), g_LabValueInfo[labName].maxVal)

AllWellFormed == \A i \in 1..Len(writerLog) : writerLog[i].wellFormed

\* C14: when a timeline of well-formed data nodes has been written and then
\* read and compiled, the TimePoints have the days that were written, and on
\* each day the variable written holds the last value written for that day,
\* brought into the variable's range.
C14_WriterReaderRoundTrip ==
    (compilePc = "done" /\ AllWellFormed) =>
        /\ Len(CompiledTimeline) = Len(WrittenDays(writerLog))
        /\ \A k \in 1..Len(CompiledTimeline) :
               CompiledTimeline[k].TimeDays = WrittenDays(writerLog)[k]
        /\ \A i \in 1..Len(writerLog) :
               (i = Len(writerLog) \/ writerLog[i + 1].days # writerLog[i].days) =>
                   LET k == Len(WrittenDays(SubSeq(writerLog, 1, i)))
                   IN  /\ k <= Len(CompiledTimeline)
                       /\ CompiledTimeline[k].data[writerLog[i].labName] =
                              ClampToRange(writerLog[i].labName, writerLog[i].value)

\* The value the text of a well-formed node carries.
NodeValue(node) == FloatOfText(Split(node.text, "=")[2])

OneMalformed == Cardinality({i \in 1..Len(writerLog) : ~writerLog[i].wellFormed}) = 1

\* C20: when exactly one node of the timeline read carries a malformed
\* datum, the compile does not raise, and once it is done the value of every
\* other node (the last of its day) is in a TimePoint.
C20_MalformedDatumDropped ==
    (compilePc # "writing" /\ OneMalformed) =>
        /\ compilePc # "raised"
        /\ compilePc = "done" =>
               \A i \in 1..Len(writerLog) :
                   (/\ writerLog[i].wellFormed
                    /\ \A j \in (i + 1)..Len(writerLog) :
                           writerLog[j].wellFormed => writerLog[j].days # writerLog[i].days)
                   => \E k \in 1..Len(CompiledTimeline) :
                          CompiledTimeline[k].data[writerLog[i].labName] =
                              ClampToRange(writerLog[i].labName, NodeValue(outputFile[i]))


\* ---- window function claims ----


\* The last call fed an observation to a function object of this class.
FedTo(cls) == funcLast.called /\ funcObj.cls = cls

\* C26: after a call that leaves at least two observations in the window of
\* a CPercentChangeValue, the tracked lowest value is the minimum m of the
\* values retained and, for m not 0, the call returned (newest - m) / m.
C26_PercentChangeUsesWindowMinimum ==
    (FedTo("CPercentChangeValue") /\ Len(funcObj.ValueQueue) >= 2) =>
        LET m == SeqMin(funcObj.ValueQueue)
        IN  /\ funcObj.lowestValue = m
            /\ m # 0 => RatEquals(funcLast.out, Rat(funcLast.value - m, m))

\* C27: after a call that leaves at least two observations in the window of
\* a relative CRangeValue, the call returned (max - min) / min of the values
\* retained, and 0 when that min is 0.
C27_RelativeRangeOverMinimum ==
    (FedTo("CRangeValue") /\ ~funcObj.fAbsolute /\ Len(funcObj.ValueQueue) >= 2) =>
        LET lowest == SeqMin(funcObj.ValueQueue)
            highest == SeqMax(funcObj.ValueQueue)
        IN  IF lowest = 0 THEN RatEquals(funcLast.out, RatOfInt(0))
            ELSE RatEquals(funcLast.out, Rat(highest - lowest, lowest))

\* The float sum of the values of a queue, added oldest first.
RECURSIVE QueueSum(_)
QueueSum(q) ==
    IF q = <<>> THEN 0
    ELSE FloatRound(QueueSum(SubSeq(q, 1, Len(q) - 1)) + q[Len(q)].v)

\* C28: every CSum call returns the sum of the values retained in its
\* window, and every CRunningAvgValue call that sum over their number.
C28_SumAndAverageOfWindow ==
    /\ FedTo("CSum") => funcLast.out = RatOfInt(QueueSum(funcObj.ValueQueue))
    /\ FedTo("CRunningAvgValue") =>
           RatEquals(funcLast.out,
                     Rat(QueueSum(funcObj.ValueQueue), Len(funcObj.ValueQueue)))

\* The largest distance of the newest value from a retained one.
WindowDelta ==
    SetMax({Abs(funcLast.value - funcObj.ValueQueue[k].v) :
                k \in 1..Len(funcObj.ValueQueue)})
\* The days from the oldest retained observation to the newest.
WindowSpan == funcLast.dayNum - funcObj.ValueQueue[1].d

C30_WindowHoldsOnlyRecentDays ==
    /\ funcLast.called =>
           \A k \in 1..Len(funcObj.ValueQueue) :
               funcLast.dayNum - funcObj.ValueQueue[k].d <= funcObj.MaxDaysInQueue
    /\ seriesLast.called =>
           /\ ~seriesLast.raised
           /\ \A k \in 1..Len(baselineCrSeries.ValueQueue) :
                  seriesLast.timeInDays - baselineCrSeries.ValueQueue[k].d
                      <= baselineCrSeries.maxHistoryInDays


\* ---- recorded position claims ----

\* C25: once every partition's recorded positions have been read with
\* ReadTimelineAtKnownPosition, in the order recorded, the fragments loaded
\* for each partition are exactly the fragments the partition scan returned
\* for it, in the same order.
C25_KnownPositionsReproduceScan ==
    knownPc = "done" => knownFound = partFound


\* ---- filter predicate claims ----

\* The predicates of the call whose variable is absent from the snapshot
\* or holds an invalid value.
UnusableProperties ==
    {i \in 1..Len(criteriaProps) :
        \/ ~criteriaEntry[criteriaProps[i].valueName].has
        \/ criteriaEntry[criteriaProps[i].valueName].v = TDF_INVALID_VALUE}

\* The relational test of a predicate on the snapshot's value.
RelationHolds(relationName, actualVal, targetVal) ==
    CASE relationName = ".EQ."  -> actualVal = targetVal
      [] relationName = ".NEQ." -> actualVal # targetVal
      [] relationName = ".LT."  -> actualVal < targetVal
      [] relationName = ".LTE." -> actualVal <= targetVal
      [] relationName = ".GT."  -> actualVal > targetVal
      [] relationName = ".GTE." -> actualVal >= targetVal

TestHolds(i) ==
    RelationHolds(criteriaProps[i].relationName,
                  criteriaEntry[criteriaProps[i].valueName].v,
                  criteriaProps[i].targetVal)

\* C21: CheckIfCurrentTimeMeetsCriteria returns False whenever the variable
\* of any predicate is absent from the snapshot or holds an invalid value,
\* whatever the other predicates evaluate to.
C21_UnusableVariableFailsFilter ==
    (criteriaOut.called /\ UnusableProperties # {}) => ~criteriaOut.result

\* C21 witness: the first predicate's test holds on a valid value, the
\* second predicate's variable is absent, and the call returned False.
C21_Witness_LaterVariableAbsent ==
    /\ criteriaOut.called
    /\ Len(criteriaProps) = 2
    /\ 1 \notin UnusableProperties
    /\ TestHolds(1)
    /\ ~criteriaEntry[criteriaProps[2].valueName].has
    /\ ~criteriaOut.result

\* C22: when the variable of every predicate is present and valid,
\* CheckIfCurrentTimeMeetsCriteria returns True exactly when the relational
\* test of every predicate holds, for variables of every data kind.
C22_FilterIsConjunctionOfTests ==
    (criteriaOut.called /\ UnusableProperties = {}) =>
        (criteriaOut.result <=> \A i \in 1..Len(criteriaProps) : TestHolds(i))


\* ---- aligned extraction claims ----

\* The inputs of the reader that are plain same-day references.
PlainInputs ==
    {k \in 1..Len(extractInputs) :
        /\ extractInputs[k] = SameDay(extractInputs[k].valueName)
        /\ extractInputs[k].valueName \in ExtractNames}

\* The snapshot entry of a variable at a TimePoint holds a valid value.
HoldsValue(timeLineIndex, valueName) ==
    /\ EntryAt(CompiledTimeline, timeLineIndex).data[valueName].has
    /\ EntryAt(CompiledTimeline, timeLineIndex).data[valueName].v >= TDF_SMALLEST_VALID_VALUE

\* The filter of the call passes at a TimePoint.
FilterPasses(timeLineIndex) ==
    \A i \in 1..Len(extractArgs.props) :
        /\ HoldsValue(timeLineIndex, extractArgs.props[i].valueName)
        /\ RelationHolds(extractArgs.props[i].relationName,
               EntryAt(CompiledTimeline, timeLineIndex).data[extractArgs.props[i].valueName].v,
               extractArgs.props[i].targetVal)

\* What was recorded at the TimePoint a row was returned at.
VisitOf(timeLineIndex) ==
    CHOOSE v \in {extractOut.visited[j] : j \in 1..Len(extractOut.visited)} :
        v.timeLineIndex = timeLineIndex

\* C23: the rows of the three arrays are as many as numReturnedDataSets;
\* row i of each comes from one TimePoint, later than the TimePoint of the
\* row before: the day number is that TimePoint's day, the result is the
\* result variable's value there (or the invalid value when it has none and
\* no true result is needed), the filter passes there, and every input
\* reference was found there, a plain same-day input holding the snapshot's
\* value.  A TimePoint at which a lookup of an input reported not-found, or
\* whose snapshot lacks a plain same-day input, contributes no row.
C23_RowsAlignedAndComplete ==
    (extractOut.called /\ ~extractOut.raised) =>
        LET n == extractOut.numReturnedDataSets
            rows == {extractOut.rowIndex[i] : i \in 1..n}
        IN  /\ Len(extractOut.inputArray) = n
            /\ Len(extractOut.resultArray) = n
            /\ Len(extractOut.dayNumArray) = n
            /\ Len(extractOut.rowIndex) = n
            /\ \A i \in 1..n :
                   LET t == extractOut.rowIndex[i]
                   IN  /\ i > 1 => extractOut.rowIndex[i - 1] < t
                       /\ extractOut.dayNumArray[i] = DayAt(CompiledTimeline, t)
                       /\ extractOut.resultArray[i] =
                              IF HoldsValue(t, "Cr")
                              THEN RatOfInt(EntryAt(CompiledTimeline, t).data["Cr"].v)
                              ELSE RatInvalid
                       /\ FilterPasses(t)
                       /\ Len(VisitOf(t).resolved) = Len(extractInputs)
                       /\ \A k \in 1..Len(extractInputs) : VisitOf(t).resolved[k]
                       /\ \A k \in PlainInputs :
                              /\ HoldsValue(t, extractInputs[k].valueName)
                              /\ extractOut.inputArray[i][k] =
                                     RatOfInt(EntryAt(CompiledTimeline, t).data[
                                                  extractInputs[k].valueName].v)
            /\ \A j \in 1..Len(extractOut.visited) :
                   (\E k \in 1..Len(extractOut.visited[j].resolved) :
                        ~extractOut.visited[j].resolved[k])
                       => extractOut.visited[j].timeLineIndex \notin rows
            /\ \A t \in 0..LastIndex(CompiledTimeline) :
                   (\E k \in PlainInputs : ~HoldsValue(t, extractInputs[k].valueName))
                       => t \notin rows

\* C23 witness: two inputs, a TimePoint whose snapshot lacks one of them
\* and returned no row, and a later TimePoint returned as the first row.
C23_Witness_RowAfterSkippedTimePoint ==
    /\ extractOut.called
    /\ ~extractOut.raised
    /\ Len(extractInputs) = 2
    /\ PlainInputs = {1, 2}
    /\ extractOut.numReturnedDataSets = 1
    /\ extractOut.rowIndex[1] = 1
    /\ \E k \in PlainInputs : ~HoldsValue(0, extractInputs[k].valueName)
    /\ \E k \in PlainInputs : HoldsValue(0, extractInputs[k].valueName)

RawValue(node) ==
    CHOOSE value \in StoreValues : node.text = <<"Cr", "=">> \o StoreText(value)
NewestCr(timeline) == timeline[Len(timeline)].data["Cr"]
CrBeforeNode ==
    IF Len(CompiledTimeline) > 0
       /\ (latestTimeLineEntryTimeDays = TDF_ParseTimeStamp(outputFile[fileIndex].T).days
           \/ fCarryForwardPreviousDataValues)
    THEN NewestCr(CompiledTimeline) ELSE TDF_INVALID_VALUE
InLabRange(value, labName) ==
    /\ value # NaN
    /\ g_LabValueInfo[labName].minVal <= value
    /\ value <= g_LabValueInfo[labName].maxVal

\* C31: every time the compiler reads a lab or vital node, a raw value below
\* the invalid threshold or at least 10 times maxVal leaves the snapshot as
\* it was, and every other raw value is stored as a value within
\* [minVal, maxVal]: itself when it lies in the range, else the bound it
\* lies beyond.
C31_StoredValuesWithinRange ==
    [][(compilePc = "reading" /\ fileIndex' = fileIndex + 1) =>
        LET raw == RawValue(outputFile[fileIndex])
            stored == NewestCr(CompiledTimeline')
            labInfo == g_LabValueInfo["Cr"]
        IN  IF raw # NaN /\ (raw < 10 * TDF_SMALLEST_VALID_VALUE
                             \/ raw >= 10 * labInfo.maxVal)
            THEN stored = CrBeforeNode
            ELSE /\ InLabRange(stored, "Cr")
                 /\ InLabRange(raw, "Cr") => stored = raw
                 /\ (raw # NaN /\ raw < labInfo.minVal) => stored = labInfo.minVal
                 /\ (raw # NaN /\ raw > labInfo.maxVal) => stored = labInfo.maxVal]_vars

\* The day of a dated node, and the orders of a drug the compiler has read
\* so far on a day and did not pass over: <<node, position in its value>>.
NodeDay(i) == TDF_ParseTimeStamp(outputFile[i].T).days
NodesRead == 1..(fileIndex - 1)
OrderAt(p) == DrugOrder(Split(outputFile[p[1]].V, ",")[p[2]])
RecordedOrders(medName, day) ==
    {p \in NodesRead \X (1..2) :
        /\ outputFile[p[1]].nodeType = "e"
        /\ outputFile[p[1]].C = "IMed"
        /\ NodeDay(p[1]) = day
        /\ p[2] <= Len(Split(outputFile[p[1]].V, ","))
        /\ OrderAt(p).medName = medName
        /\ ~OrderAt(p).passedOver}
LastOrder(orders) ==
    CHOOSE p \in orders :
        \A q \in orders : q[1] < p[1] \/ (q[1] = p[1] /\ q[2] <= p[2])

EventDays(eventType) ==
    {NodeDay(i) : i \in {j \in 1..Len(outputFile) :
                            outputFile[j].nodeType = "e" /\ outputFile[j].C = eventType}}
FatalOn(dischargeDays) ==
    {k \in 1..Len(CompiledTimeline) :
        /\ CompiledTimeline[k].TimeDays \in dischargeDays
        /\ CompiledTimeline[k].data["DiedThisAdmission"] > 0}
FatalDischarges == Only({FatalOn(dischargeDays) : dischargeDays \in {EventDays("Discharge")}})
LastDayOf(fatal) ==
    IF fatal = {} THEN TDF_INVALID_VALUE
    ELSE CompiledTimeline[CHOOSE k \in fatal : \A j \in fatal : j <= k].TimeDays
DeathDateOfLastFatalDischarge ==
    Only({LastDayOf(fatal) : fatal \in {FatalDischarges}})

\* C33: during the reverse pass EventualDeathDate, once it holds a day, is
\* never changed again, and when the pass ends it holds the day of the
\* first discharge met in reverse (the last in time) whose TimePoint flags
\* the admission as fatal.
C33_DeathDateFixedOnce ==
    /\ [][EventualDeathDate # TDF_INVALID_VALUE
              => EventualDeathDate' = EventualDeathDate]_vars
    /\ [](compilePc = "done" => EventualDeathDate = DeathDateOfLastFatalDischarge)

\* The reverse pass has met two fatal discharges on different days.
C33_Witness_TwoFatalDischarges ==
    /\ compilePc = "done"
    /\ \E j, k \in FatalDischarges :
         /\ j < k
         /\ EventualDeathDate = CompiledTimeline[k].TimeDays
         /\ EventualDeathDate # CompiledTimeline[j].TimeDays


\* The Discharge events that follow every node of the k-th TimePoint's day.
LaterDischarges(k) ==
    {i \in 1..Len(outputFile) :
        /\ outputFile[i].nodeType = "e"
        /\ outputFile[i].C = "Discharge"
        /\ \A j \in 1..Len(outputFile) :
              NodeDay(j) = CompiledTimeline[k].TimeDays => j < i}
DischargeDay(k) ==
    NodeDay(CHOOSE i \in LaterDischarges(k) : \A j \in LaterDischarges(k) : i <= j)

\* C37: when the compilation is done, every TimePoint that ends in hospital
\* and whose admission has a Discharge event holds in
\* Future_Days_Until_Discharge the discharge day minus its own day, never
\* the invalid value.
C37_DaysUntilDischarge ==
    compilePc = "done" =>
        \A k \in 1..Len(CompiledTimeline) :
            (/\ CompiledTimeline[k].data["InHospital"] > 0
             /\ LaterDischarges(k) # {})
            => CompiledTimeline[k].data["Future_Days_Until_Discharge"]
                   = DischargeDay(k) - CompiledTimeline[k].TimeDays


AppendsOnlyNewNames(before, after) ==
    /\ SubSeq(after, 1, Len(before)) = before
    /\ \A j \in (Len(before) + 1)..Len(after) : \A i \in 1..(j - 1) : after[i] # after[j]

\* C36: the dependency loop of ParseVariableList ends for every descriptor
\* table explored, cyclic ones included, and no turn of it appends a name
\* that is already in the list.
C36_ExpansionTerminates ==
    /\ [][AppendsOnlyNewNames(readerLists.allValueVarNameList,
                              readerLists.allValueVarNameList')]_vars
    /\ <>(parsePc # "expanding")

GivenLength == Len(GivenNames(parseArgs).lists.allValueVarNameList)
\* The loop has returned with a table in which Cr depends on InAKI, which
\* depends on Cr, after it appended both.
C36_Witness_CycleExpanded ==
    /\ parsePc = "returned"
    /\ expandIndex > GivenLength + 2
    /\ expandTable.Cr = <<"InAKI">>
    /\ \E i, j \in (GivenLength + 1)..Len(readerLists.allValueVarNameList) :
          /\ readerLists.allValueVarNameList[i] = <<"InAKI">>
          /\ readerLists.allValueVarNameList[j] = <<"Cr">>


\* The categories whose number of days is at least the gap.
BucketsHolding(gap) ==
    {c \in DOMAIN g_CategoryToNumDays : gap <= g_CategoryToNumDays[c]}
NarrowestBucket(gap) ==
    CHOOSE c \in BucketsHolding(gap) :
        \A d \in BucketsHolding(gap) : g_CategoryToNumDays[c] <= g_CategoryToNumDays[d]

\* C35: ComputeOutcomeCategory returns now-or-past for a target day that is
\* not after the current day, the narrowest of the 1, 7, 30, 365 and 3650
\* day categories that holds a positive gap of at most 3650 days, and
\* not-within-10-years for a larger gap or when there is no target day.
C35_OutcomeCategoryBuckets ==
    outcomeCall.called =>
        LET gap == outcomeCall.outcomeDate - outcomeCall.currentDate
        IN  outcomeCall.category =
                IF outcomeCall.outcomeDate = TDF_INVALID_VALUE
                THEN TDF_FUTURE_EVENT_CATEGORY_NOT_IN_10YRS
                ELSE IF gap <= 0 THEN TDF_FUTURE_EVENT_CATEGORY_NOW_OR_PAST
                ELSE IF BucketsHolding(gap) = {}
                THEN TDF_FUTURE_EVENT_CATEGORY_NOT_IN_10YRS
                ELSE NarrowestBucket(gap)

\* A call whose gap is exactly the limit of the category it returns, above
\* the limit of the category before.
C35_Witness_GapOnLimit ==
    /\ outcomeCall.called
    /\ outcomeCall.currentDate > 0
    /\ outcomeCall.outcomeDate - outcomeCall.currentDate = 30
    /\ outcomeCall.category = TDF_FUTURE_EVENT_CATEGORY_IN_30_DAYS


\* The inputs that name a function, and whether the filter of the call
\* passes at a TimePoint.
FunctionInputs ==
    {i \in 1..Len(extractInputs) : extractInputs[i].functionObject # NoFunction}
PassesFilter(t) ==
    \/ Len(extractArgs.props) = 0
    \/ CheckIfCurrentTimeMeetsCriteriaImpl(extractArgs.props,
                                           EntryAt(CompiledTimeline, t).data)

\* A function object fed the valid same-day observations of valueName at
\* the TimePoints from t on that pass the filter, in day order.
RECURSIVE FedOwnObservations(_, _, _)
FedOwnObservations(fo, valueName, t) ==
    IF t > LastIndex(CompiledTimeline) THEN fo
    ELSE IF PassesFilter(t) /\ HoldsValue(t, valueName)
    THEN FedOwnObservations(
             ComputeNewValue(fo, EntryAt(CompiledTimeline, t).data[valueName].v,
                             DayAt(CompiledTimeline, t)).obj,
             valueName, t + 1)
    ELSE FedOwnObservations(fo, valueName, t + 1)

\* C38: after a GetDataForCurrentTimeline call that returns, the function
\* object of each input has consumed exactly the valid same-day
\* observations of its own variable at the TimePoints that pass the filter,
\* once each and in day order, whatever the other inputs hold there.
C38_FunctionConsumesOwnObservations ==
    (extractOut.called /\ ~extractOut.raised /\ Len(CompiledTimeline) > 0) =>
        \A i \in FunctionInputs :
            allValuesFunctionObjectList[i] =
                FedOwnObservations(Reset(extractInputs[i].functionObject),
                                   extractInputs[i].valueName, 0)


\* The stages of each scale from the mildest to the worst, and the days of
\* the TimePoints swept so far in non-decreasing order.
StageScales == {<<"CKD3a", "CKD3b", "CKD4", "CKD5">>,
                <<"MELD10", "MELD20", "MELD30", "MELD40">>}
SweptDaysNonDecreasing ==
    \A i \in 1..(SweptCount - 1) :
        CompiledTimeline[i].TimeDays <= CompiledTimeline[i + 1].TimeDays
OnsetSet(field) == StartDates[field] >= 0

\* C39: after each turn of the stage-onset sweep over TimePoints whose days
\* do not decrease, a worse stage whose onset date is set has every milder
\* stage of its scale set too, on a day that is not later.
C39_OnsetDatesNested ==
    (compilePc \in {"sweep", "reverse", "done"} /\ SweptDaysNonDecreasing) =>
        \A scale \in StageScales : \A milder, worse \in 1..Len(scale) :
            (milder < worse /\ OnsetSet(scale[worse]))
                => /\ OnsetSet(scale[milder])
                   /\ StartDates[scale[milder]] <= StartDates[scale[worse]]

\* The sweep over increasing days has ended with the onset of a worse
\* stage set on a later day than the onset of a milder one.
C39_Witness_WorseStageLater ==
    /\ compilePc = "reverse"
    /\ SweptCount = MaxSweepPoints
    /\ SweptDaysNonDecreasing
    /\ OnsetSet("CKD3a")
    /\ StartDates["CKD3a"] < StartDates["CKD4"]
    /\ StartDates["CKD4"] < StartDates["CKD5"]

====
